---- MODULE Spec2Model ----
(***************************************************************************)
(* Group check-in bot: the business-date aware aggregation and reset       *)
(* engine of database.py (PostgreSQLDatabase) and the JSON-backed variant  *)
(* of main.py.                                                             *)
(*                                                                         *)
(* Dates are day numbers, times of day are minutes since midnight, a       *)
(* timestamp is a record [day, tod].  A nullable value is NULL (Python     *)
(* None / SQL NULL) or Some(x).  A table without a usable unique key (a    *)
(* key column may be NULL, and NULLs never conflict) is a bag of rows.     *)
(***************************************************************************)
EXTENDS Integers, Sequences, FiniteSets, Bags, TLC

VARIABLES
    variant,             \* "db": database.py deployment, "json": main.py deployment,
                         \* "fine": the fine functions on their own
    now,                 \* wall clock (Beijing time): [day, tod]
    groups,              \* table groups: chat_id -> row
    users,               \* table users: <<chat_id, user_id>> -> row
    daily_statistics,    \* table daily_statistics: bag of rows
    user_activities,     \* table user_activities: bag of rows
    monthly_statistics,  \* table monthly_statistics: bag of rows
    group_data,          \* main.py: group_data[chat]["成员"]: uid -> member record
    lastOp,              \* the last operation, its arguments and what its caller saw
    nOps,                \* number of state-changing calls made so far
    pf,                  \* last application of a pure function (fine tier lookups)
    cache,               \* database.py: self._cache, key -> cached row
    cache_ttl,           \* database.py: self._cache_ttl, key -> expiry (seconds)
    user_locks,          \* main.py: user_locks, uid -> the handler inside its section
    activity_configs,    \* table activity_configs: activity_name -> row
    fine_config_rows,    \* table fine_configs: <<activity_name, time_segment>> -> amount
    limits_fetch,        \* get_activity_limits: the rows of a fetch not yet cached
    last_config_write,   \* activity_name -> the last configuration write that returned
    db_init,             \* database.py: initialize() and self._initialized
    pool,                \* database.py: self.pool
    groups_call,         \* database.py: the get_all_groups call in progress
    work_records,        \* table work_records: <<chat, user, date, checkin_type>> -> row
    tasks,               \* main.py: tasks, uid -> the registered activity_timer task
    timers,              \* main.py: the activity_timer tasks created, task id -> state
    handlers,            \* main.py: uid -> the handler running under the user's lock
    save_task,           \* main.py: DataManager._save_task
    last_save_time,      \* main.py: DataManager._last_save_time (seconds)
    data_file,           \* main.py: the content of config.DATA_FILE
    save_clock           \* main.py: time.time() (seconds)

dbVars == <<groups, users, daily_statistics, user_activities, monthly_statistics>>
cacheVars == <<cache, cache_ttl>>
configVars == <<activity_configs, fine_config_rows, limits_fetch, last_config_write>>
otherVars == <<user_locks, configVars, db_init>>
connVars == <<pool, groups_call>>
taskVars == <<tasks, timers, handlers>>
saveVars == <<save_task, last_save_time, data_file, save_clock>>
moreVars == <<connVars, work_records, taskVars, saveVars>>
\* moreVars without the variables of one section
notConnVars == <<work_records, taskVars, saveVars>>
notWorkVars == <<connVars, taskVars, saveVars>>
notTaskVars == <<connVars, work_records, saveVars>>
notSaveVars == <<connVars, work_records, taskVars>>
vars == <<variant, now, groups, users, daily_statistics, user_activities,
          monthly_statistics, group_data, lastOp, nOps, pf, cache, cache_ttl,
          user_locks, activity_configs, fine_config_rows, limits_fetch,
          last_config_write, db_init, pool, groups_call, tasks, timers, handlers,
          save_task, last_save_time, data_file, save_clock,
          work_records>>

----------------------------------------------------------------------------
(* Bounds of the model *)

MaxOps == 3
MaxDay == 2

Days == 1..MaxDay
\* times of day the clock visits, in minutes: 00:00 and 04:00
TimesOfDay == {0, 240}
\* the calendar: a month has MonthLen days, day MonthLen*k is the first of a month
MonthLen == 2

Chats == {7}
Users == {41, 42}
ChatUsers == Chats \X Users
\* "meal" stands for a configured activity (Config.DEFAULT_ACTIVITY_LIMITS)
Activities == {"meal"}
\* time_segment keys of a fine tier dictionary, and the amounts they map to
SegmentKeys == {"10", "30", "10min", "30min"}
TierAmounts == {0, 100, 300}
ElapsedTimes == {600, 3000}
FineAmounts == {0, 300}
ResetTimes == {<<0, 0>>, <<4, 0>>}

----------------------------------------------------------------------------
(* Nullable values *)

NULL == <<>>
Some(x) == <<x>>
Val(o) == o[1]

\* an argument that is a string where a date is expected, and
\* isinstance(v, date) for an argument v that is not None
NotADate == <<"str", "2024-01-01">>
IsDate(v) == Len(v) = 1

\* SQL "a = b": never true when either side is NULL
SqlEq(a, b) == a # NULL /\ b # NULL /\ a = b

Max(a, b) == IF a >= b THEN a ELSE b

----------------------------------------------------------------------------
(* Configuration *)

DAILY_RESET_HOUR == 0
DAILY_RESET_MINUTE == 0

\* activity_configs rows seeded by _initialize_default_data: time_limit in minutes
activity_limits == [a \in Activities |-> [max_times |-> 2, time_limit |-> 30]]

\* fine_configs rows seeded by _initialize_default_data (Config.DEFAULT_FINE_RATES)
fine_configs == [a \in Activities |-> [k \in {"10", "30"} |-> IF k = "10" THEN 100 ELSE 300]]

\* activity names of configuration writes
ConfigNames == Activities \cup {"nap"}

\* the same rows as table fine_configs holds them, keyed by
\* (activity_name, time_segment)
SeededFineRows ==
    [k \in {<<a, seg>> : a \in Activities, seg \in {"10", "30"}} |-> fine_configs[k[1]][k[2]]]

\* the coroutines that may call initialize()
Callers == {1, 2}

\* a caller that is not inside initialize(): the attempts its last call
\* made, the delays it slept and how it ended
IdleCaller == [pc |-> "idle", attempt |-> 0, made |-> 0, slept |-> <<>>, result |-> "none"]

\* initialize() has returned: self._initialized is set, no call is running
Connected == [initialized |-> TRUE, call |-> [k \in Callers |-> IdleCaller]]

\* SELECT time_segment, fine_amount FROM fine_configs WHERE activity_name = $1
get_fine_rates_for_activity(activity) ==
    IF activity \in DOMAIN fine_configs THEN fine_configs[activity] ELSE <<>>

\* limits.get(activity, {}).get("time_limit", 0)
get_activity_time_limit(activity) ==
    IF activity \in DOMAIN activity_limits THEN activity_limits[activity].time_limit ELSE 0

\* columns of table users as created by _create_tables
UsersColumns ==
    {"id", "chat_id", "user_id", "nickname", "current_activity", "activity_start_time",
     "total_accumulated_time", "total_activity_count", "total_fines", "overtime_count",
     "total_overtime_time", "last_updated", "created_at", "updated_at"}

----------------------------------------------------------------------------
(* Business clock *)

get_beijing_date == now.day

\* real_today.replace(day=1)
MonthStart(d) == (d \div MonthLen) * MonthLen

\* the keys of self._cache
UserKey(c, u) == <<"user", c, u>>
GroupKey(c) == <<"group", c>>

\* time.time()
Time == (now.day * 1440 + now.tod) * 60

\* the ttl arguments of _set_cached in get_user and get_group
UserTtl == 30
GroupTtl == 300

\* dict.pop(key, None) for each of the keys
Pop(dict, keys) == [k \in DOMAIN dict \ keys |-> dict[k]]

\* dict[key] = value
Put(dict, key, value) == [k \in DOMAIN dict \cup {key} |-> IF k = key THEN value ELSE dict[k]]

\* _get_cached(key): the value returned; None for a key that is absent,
\* expired, or popped from _cache while its expiry is still in _cache_ttl
CachedValue(key) ==
    IF key \in DOMAIN cache_ttl /\ Time < cache_ttl[key]
    THEN IF key \in DOMAIN cache THEN Some(cache[key]) ELSE NULL
    ELSE NULL

\* _cache and _cache_ttl after a cached read of key that finds the row
\* stored (None or a row) in the table: _get_cached drops an expired key,
\* and a miss that finds a row stores it with its ttl
CacheAfterRead(key, stored, ttl) ==
    LET live == key \in DOMAIN cache_ttl /\ Time < cache_ttl[key]
        c1 == IF live THEN cache ELSE Pop(cache, {key})
        t1 == IF live THEN cache_ttl ELSE Pop(cache_ttl, {key})
    IN  IF CachedValue(key) # NULL \/ stored = NULL
        THEN [cache |-> c1, ttl |-> t1]
        ELSE [cache |-> Put(c1, key, Val(stored)), ttl |-> Put(t1, key, Time + ttl)]

\* SELECT * FROM groups WHERE chat_id = $1
SelectGroup(c) == IF c \in DOMAIN groups THEN Some(groups[c]) ELSE NULL

\* get_group(chat_id): the cached copy if there is one, else the stored row
get_group(c) == IF CachedValue(GroupKey(c)) # NULL THEN CachedValue(GroupKey(c)) ELSE SelectGroup(c)

\* The first definition of get_business_date in the class.  The class body
\* defines the name three more times; Python keeps the last definition, so
\* this one is never called.
get_business_date_shadowed(c) ==
    LET group_row == get_group(c)
        reset_hour == IF group_row # NULL THEN Val(group_row).reset_hour
                      ELSE DAILY_RESET_HOUR
        reset_minute == IF group_row # NULL THEN Val(group_row).reset_minute
                        ELSE DAILY_RESET_MINUTE
    IN  IF now.tod < reset_hour * 60 + reset_minute
        THEN Some(now.day - 1)
        ELSE Some(now.day)

\* The definition in force: the last one in the class body, a placeholder
\* whose body is "pass".  Every call on the database object returns None.
get_business_date(c) == NULL

----------------------------------------------------------------------------
(* Fine tiers *)

\* str(k).replace("min", "")
StripMin(k) == CASE k = "10min" -> "10" [] k = "30min" -> "30" [] OTHER -> k
\* str.isdigit
IsDigit(k) == k \in {"5", "10", "30", "60", "120", "180", "240"}
\* int(k) of a decimal numeral
IntOf(k) ==
    CASE k = "5" -> 5 [] k = "10" -> 10 [] k = "30" -> 30 [] k = "60" -> 60
      [] k = "120" -> 120 [] k = "180" -> 180 [] k = "240" -> 240
\* str(n)
StrOf(n) ==
    CASE n = 5 -> "5" [] n = 10 -> "10" [] n = 30 -> "30" [] n = 60 -> "60"
      [] n = 120 -> "120" [] n = 180 -> "180" [] n = 240 -> "240"
\* f"{n}min"
StrMinOf(n) == CASE n = 10 -> "10min" [] n = 30 -> "30min" [] OTHER -> "?min"

\* sorted(list): the ascending sequence of a set of integers
RECURSIVE SortedSeq(_)
SortedSeq(S) ==
    IF S = {} THEN <<>>
    ELSE LET m == CHOOSE x \in S : \A y \in S : x <= y
         IN  <<m>> \o SortedSeq(S \ {m})

\* dict.get(key, default)
DictGet(d, key, default) == IF key \in DOMAIN d THEN d[key] ELSE default

\* the tiers in ascending order of threshold: <<threshold, amount>> pairs
Tiers(segments, amounts) == [i \in 1..Len(segments) |-> <<segments[i], amounts[segments[i]]>>]

\* "for s in segments: if over <= s: fine = amount(s); break", with fine = 0
\* before the loop: the amount of the first tier, from index i on, whose
\* threshold the value does not exceed, and 0 when no tier matches.
\* scale is 1 for a value in minutes and 60 for a value in seconds.
RECURSIVE FirstMatch(_, _, _, _)
FirstMatch(tiers, i, value, scale) ==
    IF i > Len(tiers) THEN 0
    ELSE IF value <= tiers[i][1] * scale THEN tiers[i][2]
    ELSE FirstMatch(tiers, i + 1, value, scale)

\* no saturation: a value above every threshold is fined nothing
SaturateNone(fine, tiers) == fine

\* "if fine == 0 and segments: fine = amount(segments[-1])"
Saturate(fine, tiers) ==
    IF fine = 0 /\ tiers # <<>> THEN tiers[Len(tiers)][2] ELSE fine

\* calculate_fine of main.py; rates is the module's fine_rates dictionary.
\* int(time) raises ValueError on a key that is no decimal numeral.
calculate_fine(rates, activity, overtime_minutes) ==
    IF activity \notin DOMAIN rates THEN [raised |-> FALSE, value |-> 0]
    ELSE LET fine_segments == rates[activity]
         IN  IF \E k \in DOMAIN fine_segments : ~IsDigit(k)
             THEN [raised |-> TRUE, value |-> 0]
             ELSE LET segments == SortedSeq({IntOf(k) : k \in DOMAIN fine_segments})
                      amounts == [t \in {IntOf(k) : k \in DOMAIN fine_segments} |->
                                    fine_segments[StrOf(t)]]
                      tiers == Tiers(segments, amounts)
                  IN  [raised |-> FALSE,
                       value |-> Saturate(FirstMatch(tiers, 1, overtime_minutes, 1), tiers)]

\* The tier lookup of the cross-day settlement in reset_user_daily_data;
\* over_min = overtime_sec / 60 is compared with the thresholds exactly.
settlement_fine(rates, overtime_sec) ==
    IF overtime_sec > 0 /\ DOMAIN rates # {}
    THEN LET thresholds == {IntOf(StripMin(k)) :
                               k \in {x \in DOMAIN rates : IsDigit(StripMin(x))}}
             segments == SortedSeq(thresholds)
             amounts == [t \in thresholds |->
                           DictGet(rates, StrOf(t), DictGet(rates, StrMinOf(t), 0))]
             tiers == Tiers(segments, amounts)
         IN  Saturate(FirstMatch(tiers, 1, overtime_sec, 60), tiers)
    ELSE 0

\* the deviation taken with its sign
AbsNone(x) == x

\* abs(x)
Abs(x) == IF x < 0 THEN -x ELSE x

\* calculate_work_fine of main.py; rates is the module's work_fine_rates
calculate_work_fine(rates, checkin_type, late_minutes) ==
    IF checkin_type \notin DOMAIN rates THEN 0
    ELSE LET work_rates == rates[checkin_type]
             late_minutes_abs == Abs(late_minutes)
         IN  IF late_minutes_abs <= 0 THEN 0
             ELSE IF late_minutes_abs <= 60 THEN DictGet(work_rates, "60", 50)
             ELSE IF late_minutes_abs <= 120 THEN DictGet(work_rates, "120", 100)
             ELSE IF late_minutes_abs <= 180 THEN DictGet(work_rates, "180", 200)
             ELSE IF late_minutes_abs <= 240 THEN DictGet(work_rates, "240", 300)
             ELSE DictGet(work_rates, "max", 500)

----------------------------------------------------------------------------
(* Tables *)

\* str(now) / now.isoformat(), and datetime.fromisoformat of such a string
IsoString(t) == [iso |-> t]
fromisoformat(str) == str.iso

\* seconds since the epoch of a timestamp
Seconds(t) == (t.day * 1440 + t.tod) * 60

\* a users row as INSERTed by init_user (column defaults of _create_tables)
NewUserRow(last_updated) ==
    [current_activity |-> NULL, activity_start_time |-> NULL,
     total_accumulated_time |-> 0, total_activity_count |-> 0, total_fines |-> 0,
     overtime_count |-> 0, total_overtime_time |-> 0, last_updated |-> last_updated]

DailyRow(c, u, d, a, cnt, t, soft) ==
    [chat_id |-> c, user_id |-> u, statistic_date |-> d, activity_name |-> a,
     activity_count |-> cnt, accumulated_time |-> t, is_soft_reset |-> soft]

ActivityRow(c, u, d, a, cnt, t) ==
    [chat_id |-> c, user_id |-> u, activity_date |-> d, activity_name |-> a,
     activity_count |-> cnt, accumulated_time |-> t]

MonthlyRow(c, u, d, a, cnt, t) ==
    [chat_id |-> c, user_id |-> u, statistic_date |-> d, activity_name |-> a,
     activity_count |-> cnt, accumulated_time |-> t]

\* UNIQUE(chat_id, user_id, statistic_date, activity_name, is_soft_reset):
\* two rows conflict when all key columns are equal and none is NULL
DailyConflict(r, n) ==
    /\ r.chat_id = n.chat_id /\ r.user_id = n.user_id
    /\ SqlEq(r.statistic_date, n.statistic_date)
    /\ r.activity_name = n.activity_name
    /\ r.is_soft_reset = n.is_soft_reset

\* UNIQUE(chat_id, user_id, activity_date, activity_name)
ActivityConflict(r, n) ==
    /\ r.chat_id = n.chat_id /\ r.user_id = n.user_id
    /\ SqlEq(r.activity_date, n.activity_date)
    /\ r.activity_name = n.activity_name

\* UNIQUE(chat_id, user_id, statistic_date, activity_name)
MonthlyConflict(r, n) ==
    /\ r.chat_id = n.chat_id /\ r.user_id = n.user_id
    /\ SqlEq(r.statistic_date, n.statistic_date)
    /\ r.activity_name = n.activity_name

\* the conflict target of an upsert: the unique key of its table
Conflict(key, r, n) ==
    CASE key = "daily" -> DailyConflict(r, n)
      [] key = "activities" -> ActivityConflict(r, n)
      [] key = "monthly" -> MonthlyConflict(r, n)

\* INSERT ... VALUES (n) ON CONFLICT (key) DO UPDATE SET
\*   activity_count = activity_count + dCount,
\*   accumulated_time = accumulated_time + dTime
Upsert(table, n, key, dCount, dTime) ==
    LET hits == {r \in BagToSet(table) : Conflict(key, r, n)}
    IN  IF hits = {} THEN table (+) SetToBag({n})
        ELSE LET r == CHOOSE x \in hits : TRUE
             IN  (table (-) SetToBag({r})) (+)
                 SetToBag({[r EXCEPT !.activity_count = @ + dCount,
                                     !.accumulated_time = @ + dTime]})

\* DELETE FROM table WHERE ...: matched is the set of rows the WHERE clause selects
DeleteWhere(table, matched) ==
    LET keep == BagToSet(table) \ matched
    IN  [r \in keep |-> table[r]]

\* the writes without the transaction: what was written before the failure stays
TxnResultNoRollback(before, work, failed) == work

\* async with conn.transaction(): the writes made so far are committed when
\* the block ends normally and rolled back when an exception leaves it
TxnResult(before, work, failed) == IF failed THEN before ELSE work

----------------------------------------------------------------------------
(* database.py: users and groups *)

\* INSERT INTO groups (chat_id) VALUES ($1) ON CONFLICT (chat_id) DO NOTHING
init_group(c) ==
    IF c \in DOMAIN groups THEN groups
    ELSE [x \in DOMAIN groups \cup {c} |->
            IF x = c THEN [reset_hour |-> 0, reset_minute |-> 0] ELSE groups[x]]

\* UPDATE groups SET reset_hour = $1, reset_minute = $2 WHERE chat_id = $3
update_group_reset_time(c, hour, minute) ==
    IF c \in DOMAIN groups
    THEN [groups EXCEPT ![c] = [reset_hour |-> hour, reset_minute |-> minute]]
    ELSE groups

\* INSERT INTO users (chat_id, user_id, nickname, last_updated) ...
\* ON CONFLICT (chat_id, user_id) DO UPDATE SET last_updated = $4
init_user(c, u) ==
    LET today == get_business_date(c)
    IN  IF <<c, u>> \in DOMAIN users
        THEN [users EXCEPT ![<<c, u>>].last_updated = today]
        ELSE [x \in DOMAIN users \cup {<<c, u>>} |->
                IF x = <<c, u>> THEN NewUserRow(today) ELSE users[x]]

\* SELECT * FROM users WHERE chat_id = $1 AND user_id = $2
SelectUser(c, u) == IF <<c, u>> \in DOMAIN users THEN Some(users[<<c, u>>]) ELSE NULL

\* get_user(chat_id, user_id): the cached copy if there is one, else the stored row
get_user(c, u) == IF CachedValue(UserKey(c, u)) # NULL THEN CachedValue(UserKey(c, u)) ELSE SelectUser(c, u)

\* the start that records the activity without its start time
UsersRowAfterStartNoTime(row, activity, start_time) ==
    [row EXCEPT !.current_activity = activity]

\* the SET clause of update_user_activity
UsersRowAfterStart(row, activity, start_time) ==
    [row EXCEPT !.current_activity = activity, !.activity_start_time = start_time]

\* UPDATE users SET current_activity = $1, activity_start_time = $2 WHERE ...
update_user_activity(c, u, activity, start_time) ==
    IF <<c, u>> \in DOMAIN users
    THEN [users EXCEPT ![<<c, u>>] = UsersRowAfterStart(@, activity, start_time)]
    ELSE users

----------------------------------------------------------------------------
(* database.py: complete_user_activity *)

\* The users UPDATE is assembled from fragments: "$1", "$2" always, "$3" when
\* fine_amount > 0, "$4" when is_overtime, and the WHERE clause takes the last
\* two parameter numbers.  The parameter list holds only the values appended.
UsersUpdateParamCount(fine_amount, is_overtime) ==
    2 + (IF fine_amount > 0 THEN 1 ELSE 0) + (IF is_overtime THEN 1 ELSE 0) + 2

UsersUpdatePlaceholders(fine_amount, is_overtime) ==
    LET n == UsersUpdateParamCount(fine_amount, is_overtime)
    IN  {1, 2} \cup (IF fine_amount > 0 THEN {3} ELSE {})
               \cup (IF is_overtime THEN {4} ELSE {}) \cup {n - 1, n}

\* PostgreSQL rejects a statement that leaves one of its parameters
\* unreferenced ("could not determine data type of parameter $3"); in the
\* same case "$4" stands for both the overtime seconds and chat_id.
UsersUpdateRaises(fine_amount, is_overtime) ==
    UsersUpdatePlaceholders(fine_amount, is_overtime)
        # 1..UsersUpdateParamCount(fine_amount, is_overtime)

\* the SET clause of the users UPDATE (step 7)
UsersRowAfterComplete(row, elapsed_time, real_today, fine_amount, is_overtime, overtime_seconds) ==
    [row EXCEPT
        !.total_accumulated_time = @ + elapsed_time,
        !.total_activity_count = @ + 1,
        !.current_activity = NULL,
        !.activity_start_time = NULL,
        !.last_updated = Some(real_today),
        !.total_fines = IF fine_amount > 0 THEN @ + fine_amount ELSE @,
        !.overtime_count = IF is_overtime THEN @ + 1 ELSE @,
        !.total_overtime_time = IF is_overtime THEN @ + overtime_seconds ELSE @]

\* the statements of the fan-out, numbered as in the code's comments; a
\* statement is executed only under its condition
StepRuns(k, p) ==
    CASE k \in {4, 5} -> p.fine_amount > 0
      [] k = 6 -> p.is_overtime
      [] OTHER -> TRUE

\* statement k raises: an injected failure of the connection (p.fault = k),
\* or the malformed users UPDATE
StepRaises(k, p) ==
    /\ StepRuns(k, p)
    /\ \/ p.fault = k
       \/ k = 7 /\ UsersUpdateRaises(p.fine_amount, p.is_overtime)

\* the effect of statement k on the transaction's view s of the four tables
CompleteStep(k, s, p, business_today, real_today, statistic_date) ==
    LET c == p.chat_id
        u == p.user_id
        overtime_seconds ==
            Max(0, p.elapsed_time - get_activity_time_limit(p.activity) * 60)
    IN  CASE k = 1 ->
               [s EXCEPT !.daily = Upsert(@, DailyRow(c, u, business_today, p.activity,
                                           1, p.elapsed_time, FALSE),
                                          "daily", 1, p.elapsed_time)]
          [] k = 2 ->
               [s EXCEPT !.activities = Upsert(@, ActivityRow(c, u, business_today,
                                                p.activity, 1, p.elapsed_time),
                                               "activities", 1, p.elapsed_time)]
          [] k = 3 ->
               [s EXCEPT !.monthly = Upsert(@, MonthlyRow(c, u, Some(statistic_date),
                                             p.activity, 1, p.elapsed_time),
                                            "monthly", 1, p.elapsed_time)]
          [] k = 4 ->
               [s EXCEPT !.daily = Upsert(@, DailyRow(c, u, business_today, "total_fines",
                                           1, p.fine_amount, FALSE),
                                          "daily", 1, p.fine_amount)]
          [] k = 5 ->
               [s EXCEPT !.monthly = Upsert(@, MonthlyRow(c, u, Some(statistic_date),
                                             "total_fines", 0, p.fine_amount),
                                            "monthly", 0, p.fine_amount)]
          [] k = 6 ->
               [s EXCEPT !.daily =
                   Upsert(Upsert(@, DailyRow(c, u, business_today, "overtime_count",
                                             1, 0, FALSE), "daily", 1, 0),
                          DailyRow(c, u, business_today, "overtime_time",
                                   0, overtime_seconds, FALSE),
                          "daily", 0, overtime_seconds)]
          [] k = 7 ->
               IF <<c, u>> \in DOMAIN s.users
               THEN [s EXCEPT !.users[<<c, u>>] =
                       UsersRowAfterComplete(@, p.elapsed_time, real_today,
                           p.fine_amount, p.is_overtime, overtime_seconds)]
               ELSE s

\* statements k..7 in order on the view s, stopping at the first that raises
RECURSIVE RunComplete(_, _, _, _, _, _)
RunComplete(k, s, p, business_today, real_today, statistic_date) ==
    IF k > 7 THEN [work |-> s, failed |-> FALSE]
    ELSE IF StepRaises(k, p) THEN [work |-> s, failed |-> TRUE]
    ELSE RunComplete(k + 1,
             IF StepRuns(k, p)
             THEN CompleteStep(k, s, p, business_today, real_today, statistic_date)
             ELSE s,
             p, business_today, real_today, statistic_date)

Tables ==
    [daily |-> daily_statistics, activities |-> user_activities,
     monthly |-> monthly_statistics, users |-> users]

\* complete_user_activity(chat_id, user_id, activity, elapsed_time,
\* fine_amount, is_overtime): the tables after the call and whether it raised
complete_user_activity(p) ==
    LET business_today == get_business_date(p.chat_id)
        real_today == get_beijing_date
        statistic_date == MonthStart(real_today)
        run == RunComplete(1, Tables, p, business_today, real_today, statistic_date)
    IN  [tables |-> TxnResult(Tables, run.work, run.failed), failed |-> run.failed]

\* the exception caught and turned into a return
CompleteOutcomeSwallowed(failed) == "returned"

\* no try/except around the transaction: an exception reaches the caller
CompleteOutcome(failed) == IF failed THEN "raised" ELSE "returned"

----------------------------------------------------------------------------
(* database.py: resets *)

\* the SET clause shared by the three reset UPDATEs of users
UsersRowAfterReset(row, new_last_updated) ==
    [row EXCEPT
        !.total_activity_count = 0, !.total_accumulated_time = 0, !.total_fines = 0,
        !.total_overtime_time = 0, !.overtime_count = 0,
        !.current_activity = NULL, !.activity_start_time = NULL,
        !.last_updated = new_last_updated]

\* the three reset UPDATEs of users also set checkin_message_id = NULL, a
\* column the users table of _create_tables does not have: the statement
\* raises UndefinedColumnError
ResetUsersUpdateRaises == "checkin_message_id" \notin UsersColumns

\* the cross-day settlement of a single-user hard reset, on the view s
Settle(s, c, u) ==
    LET user_before == get_user(c, u)
    IN  IF user_before = NULL \/ Val(user_before).current_activity = NULL
           \/ Val(user_before).activity_start_time = NULL
        THEN s
        ELSE LET act == Val(Val(user_before).current_activity)
                 start_time == fromisoformat(Val(Val(user_before).activity_start_time))
                 elapsed == Seconds(now) - Seconds(start_time)
                 limit_sec == get_activity_time_limit(act) * 60
                 overtime_sec == Max(0, elapsed - limit_sec)
                 fine == settlement_fine(get_fine_rates_for_activity(act), overtime_sec)
                 activity_month == MonthStart(start_time.day)
                 s1 == [s EXCEPT !.monthly =
                          Upsert(@, MonthlyRow(c, u, Some(activity_month), act, 1, elapsed),
                                 "monthly", 1, elapsed)]
             IN  IF (fine > 0 \/ overtime_sec > 0) /\ <<c, u>> \in DOMAIN s1.users
                 THEN [s1 EXCEPT !.users[<<c, u>>] =
                         [@ EXCEPT !.total_fines = @ + fine,
                                   !.overtime_count = @ + (IF overtime_sec > 0 THEN 1 ELSE 0),
                                   !.total_overtime_time = @ + overtime_sec]]
                 ELSE s1

\* the WHERE guard of the single-user users UPDATE
NeedsReset(row) ==
    \/ row.total_activity_count > 0 \/ row.total_accumulated_time > 0
    \/ row.total_fines > 0 \/ row.current_activity # NULL

\* single-user branch: settlement, the three DELETEs, the users UPDATE
ResetSingle(s, c, u, target_date, new_last_updated) ==
    LET s1 == Settle(s, c, u)
        s2 == [s1 EXCEPT
                 !.daily = DeleteWhere(@, {r \in BagToSet(@) :
                                             /\ r.chat_id = c /\ r.user_id = u
                                             /\ SqlEq(r.statistic_date, target_date)}),
                 !.activities = DeleteWhere(@, {r \in BagToSet(@) :
                                             /\ r.chat_id = c /\ r.user_id = u
                                             /\ SqlEq(r.activity_date, target_date)})]
    IN  IF <<c, u>> \in DOMAIN s2.users /\ NeedsReset(s2.users[<<c, u>>])
        THEN [s2 EXCEPT !.users[<<c, u>>] = UsersRowAfterReset(@, new_last_updated)]
        ELSE s2

\* group branch: the three DELETEs and the users UPDATE of every user of the chat
ResetGroup(s, c, target_date, new_last_updated) ==
    [s EXCEPT
       !.daily = DeleteWhere(@, {r \in BagToSet(@) :
                                   r.chat_id = c /\ SqlEq(r.statistic_date, target_date)}),
       !.activities = DeleteWhere(@, {r \in BagToSet(@) :
                                   r.chat_id = c /\ SqlEq(r.activity_date, target_date)}),
       !.users = [k \in DOMAIN @ |->
                    IF k[1] = c THEN UsersRowAfterReset(@[k], new_last_updated) ELSE @[k]]]

\* reset_user_daily_data(chat_id, user_id, target_date): the tables after the
\* call and the value returned.  user_id and target_date are NULL or Some(x).
reset_user_daily_data(c, user_id, target_date) ==
    LET current_biz_date == get_business_date(c)
        target == IF target_date = NULL THEN current_biz_date ELSE target_date
        \* "elif not isinstance(target_date, date): raise ValueError", inside the try
        value_error == target_date # NULL /\ ~IsDate(target_date)
        \* max(target_date, current_biz_date) raises TypeError on None
        max_raises == target = NULL \/ current_biz_date = NULL
    IN  IF value_error \/ max_raises THEN [tables |-> Tables, ok |-> FALSE]
        ELSE LET new_last_updated == Some(Max(Val(target), Val(current_biz_date)))
                 work == IF user_id # NULL
                         THEN ResetSingle(Tables, c, Val(user_id), target, new_last_updated)
                         ELSE ResetGroup(Tables, c, target, new_last_updated)
             IN  [tables |-> TxnResult(Tables, work, ResetUsersUpdateRaises),
                  ok |-> ~ResetUsersUpdateRaises]

\* the keys a hard reset clears: the user's and the group's for one user,
\* the group's alone for the whole chat
ResetCacheKeys(c, user_id) ==
    IF user_id # NULL THEN {UserKey(c, Val(user_id)), GroupKey(c)} ELSE {GroupKey(c)}

\* the keys soft_reset_group clears: every key of a user of the chat, and the group's
SoftResetCacheKeys(c) ==
    {k \in DOMAIN cache : (k[1] = "user" /\ k[2] = c) \/ k = GroupKey(c)}

\* the reset methods wrap their whole body in try / except Exception: return
\* False; what the caller sees of a call that ended with the value ok
ResetOutcomeUncaught(ok) == [raised |-> ~ok, value |-> ok]

ResetOutcome(ok) == [raised |-> FALSE, value |-> ok]

\* UPDATE daily_statistics SET is_soft_reset = TRUE violates the unique key
\* when a flagged row meets a row of the same key that is flagged already
SoftFlagCollides(flagged) ==
    \E r \in flagged, x \in BagToSet(daily_statistics) :
       x # r /\ DailyConflict(x, [r EXCEPT !.is_soft_reset = TRUE])

\* a reset that also clears the chat's monthly history, outside any transaction
soft_reset_group_clearing_monthly(c, mode) ==
    [tables |-> [Tables EXCEPT !.monthly =
                    DeleteWhere(@, {r \in BagToSet(@) : r.chat_id = c})],
     ok |-> FALSE]

\* soft_reset_group(chat_id, mode): the tables after the call and the value returned
soft_reset_group(c, mode) ==
    LET today == get_business_date(c)
        flagged == {r \in BagToSet(daily_statistics) :
                      r.chat_id = c /\ SqlEq(r.statistic_date, today)}
        raises == (mode = "soft" /\ SoftFlagCollides(flagged)) \/ ResetUsersUpdateRaises
        daily1 == IF mode = "soft"
                  THEN DeleteWhere(daily_statistics, flagged)
                       (+) [r \in {[x EXCEPT !.is_soft_reset = TRUE] : x \in flagged} |-> 1]
                  ELSE DeleteWhere(daily_statistics, flagged)
        work == [daily |-> daily1,
                 activities |-> DeleteWhere(user_activities,
                                   {r \in BagToSet(user_activities) :
                                       r.chat_id = c /\ SqlEq(r.activity_date, today)}),
                 monthly |-> monthly_statistics,
                 users |-> [k \in DOMAIN users |->
                              IF k[1] = c THEN UsersRowAfterReset(users[k], today)
                              ELSE users[k]]]
    IN  [tables |-> TxnResult(Tables, work, raises), ok |-> ~raises]

----------------------------------------------------------------------------
(* database.py: statistics and monthly cleanup *)

\* SUM(column) over the rows of a bag: each row counts once per copy
RECURSIVE SumRows(_, _, _)
SumRows(table, rows, column) ==
    IF rows = {} THEN 0
    ELSE LET r == CHOOSE x \in rows : TRUE
         IN  r[column] * table[r] + SumRows(table, rows \ {r}, column)

\* get_group_statistics(chat_id, target_date): for each user that has a
\* daily_statistics row of the date, flagged or not, the count and time of
\* each configured activity (0 for an activity without rows)
get_group_statistics(c, target_date) ==
    LET target == IF target_date = NULL THEN get_business_date(c) ELSE target_date
        daily_stats == {r \in BagToSet(daily_statistics) :
                          r.chat_id = c /\ SqlEq(r.statistic_date, target)}
        Of(u, a) == {r \in daily_stats : r.user_id = u /\ r.activity_name = a}
    IN  [u \in {r.user_id : r \in daily_stats} |->
           [a \in DOMAIN activity_limits |->
              [count |-> SumRows(daily_statistics, Of(u, a), "activity_count"),
               time |-> SumRows(daily_statistics, Of(u, a), "accumulated_time")]]]

\* timedelta(days=90) of cleanup_monthly_data
MonthlyCutoffDays == 90

\* cleanup_monthly_data(target_date): monthly_statistics after the call and
\* whether the call raised (the except clause logs and raises again)
cleanup_monthly_data(target_date) ==
    IF target_date # NULL /\ ~IsDate(target_date)
    THEN [monthly |-> monthly_statistics, raised |-> TRUE]
    ELSE LET cutoff == IF target_date = NULL
                       THEN MonthStart(now.day - MonthlyCutoffDays)
                       ELSE MonthStart(Val(target_date))
         IN  [monthly |-> DeleteWhere(monthly_statistics,
                             {r \in BagToSet(monthly_statistics) :
                                 Val(r.statistic_date) < cutoff}),
              raised |-> FALSE]

----------------------------------------------------------------------------
(* database.py: retention cleanup *)

\* UPDATE users SET last_updated = $1 WHERE chat_id = $2 AND user_id = $3
update_user_last_updated(c, u, date_obj) ==
    IF <<c, u>> \in DOMAIN users
    THEN [users EXCEPT ![<<c, u>>].last_updated = date_obj]
    ELSE users

\* column < cutoff of SQL: never true of a NULL
SqlBefore(v, cutoff) == v # NULL /\ Val(v) < cutoff

\* (self.get_beijing_time() - timedelta(days=days)).date()
CutoffDate(days) == now.day - days

\* cleanup_old_data(days): the tables after its four DELETEs
cleanup_old_data(days) ==
    LET cutoff_date == CutoffDate(days)
        monthly_cutoff == MonthStart(now.day - MonthlyCutoffDays)
    IN  [daily |-> daily_statistics,
         activities |-> DeleteWhere(user_activities,
                           {r \in BagToSet(user_activities) :
                               SqlBefore(r.activity_date, cutoff_date)}),
         users |-> [k \in {x \in DOMAIN users :
                              ~SqlBefore(users[x].last_updated, cutoff_date)} |-> users[k]],
         monthly |-> DeleteWhere(monthly_statistics,
                        {r \in BagToSet(monthly_statistics) :
                            SqlBefore(r.statistic_date, monthly_cutoff)})]

\* cleanup_inactive_users(days): the user_id of every users row that is
\* older than the cutoff and has no monthly_statistics row of its chat and
\* user; then the rows WHERE user_id = ANY(user_ids), in whichever chat
cleanup_inactive_users(days) ==
    LET cutoff_date == CutoffDate(days)
        user_ids == {k[2] : k \in {x \in DOMAIN users :
                        /\ SqlBefore(users[x].last_updated, cutoff_date)
                        /\ ~\E m \in BagToSet(monthly_statistics) :
                               m.chat_id = x[1] /\ m.user_id = x[2]}}
    IN  [daily |-> daily_statistics,
         activities |-> DeleteWhere(user_activities,
                           {r \in BagToSet(user_activities) : r.user_id \in user_ids}),
         users |-> [k \in {x \in DOMAIN users : x[2] \notin user_ids} |-> users[k]],
         monthly |-> monthly_statistics]

----------------------------------------------------------------------------
(* main.py: the JSON-backed variant.  A member record of group_data holds   *)
(* 活动 (activity), 开始时间 (start_time), 次数 (counts), 累计 (accumulated), *)
(* 总累计时间, 总次数, 累计罚款, 超时次数, 总超时时间 and 最后更新.          *)

\* the module's fine_rates, loaded from Config.DEFAULT_FINE_RATES
json_fine_rates == fine_configs

ZeroPerActivity == [a \in Activities |-> 0]

\* the record init_user stores for a new member
NewMember ==
    [activity |-> NULL, start_time |-> NULL,
     accumulated |-> ZeroPerActivity, counts |-> ZeroPerActivity,
     last_updated |-> now.day,
     total_time |-> 0, total_count |-> 0, total_fines |-> 0,
     overtime_count |-> 0, total_overtime_time |-> 0]

\* the daily fields every reset path of main.py clears
ClearDaily(m) ==
    [m EXCEPT !.accumulated = ZeroPerActivity, !.counts = ZeroPerActivity,
              !.total_time = 0, !.total_count = 0, !.total_fines = 0,
              !.overtime_count = 0, !.total_overtime_time = 0]

\* init_user (main.py): group_data with the member present
json_init_user(gd, uid) ==
    IF uid \in DOMAIN gd THEN gd
    ELSE [x \in DOMAIN gd \cup {uid} |-> IF x = uid THEN NewMember ELSE gd[x]]

\* reset_daily_data_if_needed
reset_daily_data_if_needed(m) ==
    IF m.last_updated # now.day
    THEN [ClearDaily(m) EXCEPT !.last_updated = now.day]
    ELSE m

\* UserContext.__aenter__: init_group, init_user, reset_daily_data_if_needed
UserContextEnter(gd, uid) ==
    LET gd1 == json_init_user(gd, uid)
    IN  [gd1 EXCEPT ![uid] = reset_daily_data_if_needed(@)]

\* the member record after a successful start (the assignments under UserContext)
MemberAfterStart(m, act) ==
    [m EXCEPT !.activity = Some(act), !.start_time = Some(IsoString(now)),
              !.counts[act] = @ + 1]

\* check_activity_limit with the comparison current_count <= max_times
start_activity_inclusive(gd, uid, act) ==
    IF act \notin DOMAIN activity_limits THEN gd
    ELSE LET gd1 == json_init_user(gd, uid)
         IN  IF gd1[uid].activity # NULL THEN gd1
             ELSE LET gd2 == UserContextEnter(gd1, uid)
                      can_start == gd2[uid].counts[act] <= activity_limits[act].max_times
                  IN  IF can_start
                      THEN [gd2 EXCEPT ![uid] = MemberAfterStart(@, act)]
                      ELSE gd2

\* _start_activity_locked: group_data after the call
start_activity(gd, uid, act) ==
    IF act \notin DOMAIN activity_limits THEN gd
    ELSE LET gd1 == json_init_user(gd, uid)          \* has_active_activity
         IN  IF gd1[uid].activity # NULL THEN gd1
             ELSE LET gd2 == UserContextEnter(gd1, uid)
                      \* check_activity_limit
                      can_start == gd2[uid].counts[act] < activity_limits[act].max_times
                  IN  IF can_start
                      THEN [gd2 EXCEPT ![uid] = MemberAfterStart(@, act)]
                      ELSE gd2

\* the member record after a return to seat (the assignments of _process_back_locked)
MemberAfterBack(m) ==
    LET act == Val(m.activity)
        elapsed == Seconds(now) - Seconds(fromisoformat(Val(m.start_time)))
        time_limit_seconds == activity_limits[act].time_limit * 60
        is_overtime == elapsed > time_limit_seconds
        overtime_seconds == Max(0, elapsed - time_limit_seconds)
        charged == is_overtime /\ overtime_seconds > 0
        \* overtime_minutes = overtime_seconds / 60: elapsed is a whole number of minutes
        fine_amount == IF charged
                       THEN calculate_fine(json_fine_rates, act, overtime_seconds \div 60).value
                       ELSE 0
    IN  [m EXCEPT
           !.total_fines = IF charged THEN @ + fine_amount ELSE @,
           !.overtime_count = IF charged THEN @ + 1 ELSE @,
           !.total_overtime_time = IF charged THEN @ + overtime_seconds ELSE @,
           !.accumulated[act] = @ + elapsed,
           !.total_time = @ + elapsed,
           !.total_count = @ + 1,
           !.activity = NULL,
           !.start_time = NULL]

\* _process_back_locked: group_data after the call
process_back(gd, uid) ==
    LET gd1 == UserContextEnter(gd, uid)
    IN  IF gd1[uid].activity = NULL THEN gd1
        ELSE [gd1 EXCEPT ![uid] = MemberAfterBack(@)]

\* activity_timer: the forced return is due once the activity ran 120 minutes
\* past its limit (remaining <= -120 * 60)
ForcedReturnDue(m, act, limit) ==
    /\ m.activity = Some(act)
    /\ limit * 60 - (Seconds(now) - Seconds(fromisoformat(Val(m.start_time)))) <= -120 * 60

\* activity_timer: the member record after the forced return
MemberAfterForcedReturn(m, act) ==
    LET elapsed == Seconds(now) - Seconds(fromisoformat(Val(m.start_time)))
        fine_amount == calculate_fine(json_fine_rates, act, 120).value
    IN  [m EXCEPT
           !.accumulated[act] = @ + elapsed,
           !.total_time = @ + elapsed,
           !.total_count = @ + 1,
           !.total_fines = @ + fine_amount,
           !.overtime_count = @ + 1,
           !.total_overtime_time = @ + 120 * 60,
           !.activity = NULL,
           !.start_time = NULL]

\* daily_reset_task: at the reset minute, every member's daily fields are cleared
daily_reset(gd) ==
    [uid \in DOMAIN gd |-> [ClearDaily(gd[uid]) EXCEPT !.last_updated = now.day]]

\* cmd_reset: init_user and clear the member's daily fields
cmd_reset(gd, uid) ==
    LET gd1 == json_init_user(gd, uid)
    IN  [gd1 EXCEPT ![uid] = ClearDaily(@)]

----------------------------------------------------------------------------
(* The state machine *)

\* no get_all_groups call is running
NoGroupsCall ==
    [pc |-> "idle", retries |-> 0, attempt |-> 0, reconnect_attempt |-> 0,
     slept |-> <<>>, result |-> "none"]

\* config.SAVE_DELAY, in seconds
SAVE_DELAY == 3

\* no handler is running for the user
IdleHandler == [op |-> "idle", pc |-> "idle"]

\* DataManager._save_task is None
NoSaveTask == [pc |-> "none", snapshot |-> NULL]

\* the state of the later sections outside their own specifications: the
\* pool is open, no call is running, no timer and no save task was created,
\* the data file does not exist; time.time() is SAVE_DELAY or more past
\* _last_save_time = 0
InitMore ==
    /\ pool = "open"
    /\ groups_call = NoGroupsCall
    /\ work_records = <<>>
    /\ tasks = <<>>
    /\ timers = <<>>
    /\ handlers = [uid \in Users |-> IdleHandler]
    /\ save_task = NoSaveTask
    /\ last_save_time = 0
    /\ data_file = NULL
    /\ save_clock = SAVE_DELAY

\* the state the model leaves alone outside their own specifications: no
\* handler holds a lock, the configuration tables as seeded, no fetch in
\* flight, initialize() has returned
InitOther ==
    /\ user_locks = [uid \in Users |-> "free"]
    /\ activity_configs = activity_limits
    /\ fine_config_rows = SeededFineRows
    /\ limits_fetch = NULL
    /\ last_config_write = [a \in ConfigNames |-> NULL]
    /\ db_init = Connected
    /\ InitMore

Init ==
    /\ variant \in {"db", "json"}
    /\ now = [day |-> 1, tod |-> 0]
    /\ groups = <<>>
    /\ users = <<>>
    /\ daily_statistics = EmptyBag
    /\ user_activities = EmptyBag
    /\ monthly_statistics = EmptyBag
    /\ group_data = <<>>
    /\ lastOp = [op |-> "init"]
    /\ nOps = 0
    /\ pf = [fn |-> "none"]
    /\ cache = <<>>
    /\ cache_ttl = <<>>
    /\ InitOther

\* a call is made: the budget of calls is not used up
Call == nOps < MaxOps /\ nOps' = nOps + 1

SetTables(t) ==
    /\ daily_statistics' = t.daily
    /\ user_activities' = t.activities
    /\ monthly_statistics' = t.monthly
    /\ users' = t.users

\* the clock moves to a later instant
Tick ==
    /\ \E d \in Days, t \in TimesOfDay :
         /\ Seconds([day |-> d, tod |-> t]) > Seconds(now)
         /\ now' = [day |-> d, tod |-> t]
    /\ lastOp' = [op |-> "tick"]
    /\ UNCHANGED <<variant, moreVars, otherVars, dbVars, group_data, nOps, pf, cacheVars>>

InitGroup ==
    /\ variant = "db" /\ Call
    /\ \E c \in Chats :
         /\ groups' = init_group(c)
         /\ cache' = Pop(cache, {GroupKey(c)})
         /\ lastOp' = [op |-> "init_group", chat_id |-> c]
    /\ UNCHANGED <<variant, moreVars, otherVars, now, users, daily_statistics, user_activities,
                   monthly_statistics, group_data, pf, cache_ttl>>

UpdateGroupResetTime ==
    /\ variant = "db" /\ Call
    /\ \E c \in Chats, t \in ResetTimes :
         /\ groups' = update_group_reset_time(c, t[1], t[2])
         /\ cache' = Pop(cache, {GroupKey(c)})
         /\ lastOp' = [op |-> "update_group_reset_time", chat_id |-> c]
    /\ UNCHANGED <<variant, moreVars, otherVars, now, users, daily_statistics, user_activities,
                   monthly_statistics, group_data, pf, cache_ttl>>

InitUser ==
    /\ variant = "db" /\ Call
    /\ \E cu \in ChatUsers :
         /\ users' = init_user(cu[1], cu[2])
         /\ cache' = Pop(cache, {UserKey(cu[1], cu[2])})
         /\ lastOp' = [op |-> "init_user", chat_id |-> cu[1], user_id |-> cu[2]]
    /\ UNCHANGED <<variant, moreVars, otherVars, now, groups, daily_statistics, user_activities,
                   monthly_statistics, group_data, pf, cache_ttl>>

\* the caller starts an activity now
UpdateUserActivity ==
    /\ variant = "db" /\ Call
    /\ \E cu \in ChatUsers, activity \in Activities :
         /\ users' = update_user_activity(cu[1], cu[2], Some(activity),
                                          Some(IsoString(now)))
         /\ cache' = Pop(cache, {UserKey(cu[1], cu[2])})
         /\ lastOp' = [op |-> "update_user_activity", chat_id |-> cu[1],
                       user_id |-> cu[2]]
    /\ UNCHANGED <<variant, moreVars, otherVars, now, groups, daily_statistics, user_activities,
                   monthly_statistics, group_data, pf, cache_ttl>>

\* fault = 0: the connection works; fault = k: statement k of the fan-out,
\* one the call executes, fails.  lastOp keeps the amounts of the calls the
\* connection did not fail.
CompleteUserActivityWith(Faults) ==
    /\ variant = "db" /\ Call
    /\ \E cu \in ChatUsers, activity \in Activities, elapsed_time \in ElapsedTimes,
          fine_amount \in FineAmounts, is_overtime \in BOOLEAN, fault \in Faults :
         LET p == [chat_id |-> cu[1], user_id |-> cu[2], activity |-> activity,
                   elapsed_time |-> elapsed_time, fine_amount |-> fine_amount,
                   is_overtime |-> is_overtime, fault |-> fault]
             r == complete_user_activity(p)
         IN  /\ is_overtime <=> elapsed_time > get_activity_time_limit(activity) * 60
             /\ fault = 0 \/ StepRuns(fault, p)
             /\ SetTables(r.tables)
             \* the pop follows the transaction: an exception skips it
             /\ cache' = IF r.failed THEN cache ELSE Pop(cache, {UserKey(cu[1], cu[2])})
             /\ lastOp' = [op |-> "complete_user_activity", chat_id |-> cu[1],
                           user_id |-> cu[2], activity |-> activity, fault |-> fault,
                           amounts |-> IF fault = 0
                                       THEN Some([elapsed_time |-> elapsed_time,
                                                  fine_amount |-> fine_amount,
                                                  is_overtime |-> is_overtime])
                                       ELSE NULL,
                           failed |-> r.failed, outcome |-> CompleteOutcome(r.failed)]
    /\ UNCHANGED <<variant, moreVars, otherVars, now, groups, group_data, pf, cache_ttl>>

CompleteUserActivity == CompleteUserActivityWith(0..7)

\* target_date is None, today's date, or one of the values BadDates
ResetUserDailyDataWith(BadDates) ==
    /\ variant = "db" /\ Call
    /\ \E c \in Chats, user_id \in {NULL} \cup {Some(u) : u \in Users},
          target_date \in {NULL, Some(now.day)} \cup BadDates :
         LET r == reset_user_daily_data(c, user_id, target_date)
             keys == ResetCacheKeys(c, user_id)
         IN  /\ SetTables(r.tables)
             \* the cache cleanup is the last thing a reset does before "return True"
             /\ cache' = IF r.ok THEN Pop(cache, keys) ELSE cache
             /\ cache_ttl' = IF r.ok THEN Pop(cache_ttl, keys) ELSE cache_ttl
             /\ lastOp' = [op |-> "reset_user_daily_data", chat_id |-> c,
                           user_id |-> user_id, bad_date |-> target_date \in BadDates,
                           outcome |-> ResetOutcome(r.ok)]
    /\ UNCHANGED <<variant, moreVars, otherVars, now, groups, group_data, pf>>

ResetUserDailyData == ResetUserDailyDataWith({})

SoftResetGroup ==
    /\ variant = "db" /\ Call
    /\ \E c \in Chats, mode \in {"soft", "hard"} :
         LET r == soft_reset_group(c, mode)
             keys == SoftResetCacheKeys(c)
         IN  /\ SetTables(r.tables)
             /\ cache' = IF r.ok THEN Pop(cache, keys) ELSE cache
             /\ cache_ttl' = IF r.ok THEN Pop(cache_ttl, keys) ELSE cache_ttl
             /\ lastOp' = [op |-> "soft_reset_group", chat_id |-> c, mode |-> mode,
                           outcome |-> ResetOutcome(r.ok)]
    /\ UNCHANGED <<variant, moreVars, otherVars, now, groups, group_data, pf>>

StartActivity ==
    /\ variant = "json" /\ Call
    /\ \E uid \in Users, act \in Activities :
         /\ group_data' = start_activity(group_data, uid, act)
         /\ lastOp' = [op |-> "start_activity", uid |-> uid, act |-> act]
    /\ UNCHANGED <<variant, moreVars, otherVars, now, dbVars, pf, cacheVars>>

ProcessBack ==
    /\ variant = "json" /\ Call
    /\ \E uid \in Users :
         /\ group_data' = process_back(group_data, uid)
         /\ lastOp' = [op |-> "process_back", uid |-> uid]
    /\ UNCHANGED <<variant, moreVars, otherVars, now, dbVars, pf, cacheVars>>

\* the timer started with the activity finds the forced return due
ForcedReturn ==
    /\ variant = "json" /\ Call
    /\ \E uid \in DOMAIN group_data, act \in Activities :
         /\ ForcedReturnDue(group_data[uid], act, activity_limits[act].time_limit)
         /\ group_data' = [group_data EXCEPT ![uid] = MemberAfterForcedReturn(@, act)]
         /\ lastOp' = [op |-> "forced_return", uid |-> uid, act |-> act]
    /\ UNCHANGED <<variant, moreVars, otherVars, now, dbVars, pf, cacheVars>>

\* daily_reset_task finds the clock at the reset minute
DailyReset ==
    /\ variant = "json" /\ Call
    /\ now.tod = DAILY_RESET_HOUR * 60 + DAILY_RESET_MINUTE
    /\ group_data' = daily_reset(group_data)
    /\ lastOp' = [op |-> "daily_reset"]
    /\ UNCHANGED <<variant, moreVars, otherVars, now, dbVars, pf, cacheVars>>

CmdReset ==
    /\ variant = "json" /\ Call
    /\ \E uid \in Users :
         /\ group_data' = cmd_reset(group_data, uid)
         /\ lastOp' = [op |-> "cmd_reset", uid |-> uid]
    /\ UNCHANGED <<variant, moreVars, otherVars, now, dbVars, pf, cacheVars>>

Next ==
    \/ Tick
    \/ InitGroup
    \/ UpdateGroupResetTime
    \/ InitUser
    \/ UpdateUserActivity
    \/ CompleteUserActivity
    \/ ResetUserDailyData
    \/ SoftResetGroup
    \/ StartActivity
    \/ ProcessBack
    \/ ForcedReturn
    \/ DailyReset
    \/ CmdReset

Spec == Init /\ [][Next]_vars

----------------------------------------------------------------------------
(* The reset engine of database.py: the resets with every kind of argument, *)
(* the monthly cleanup, and completions the connection does not fail        *)

InitReset == Init /\ variant = "db"

CleanupMonthlyData ==
    /\ variant = "db" /\ Call
    /\ \E target_date \in {NULL, Some(now.day), NotADate} :
         LET r == cleanup_monthly_data(target_date)
         IN  /\ monthly_statistics' = r.monthly
             /\ lastOp' = [op |-> "cleanup_monthly_data",
                           bad_date |-> target_date = NotADate, raised |-> r.raised]
    /\ UNCHANGED <<variant, moreVars, otherVars, now, groups, users, daily_statistics, user_activities,
                   group_data, pf, cacheVars>>

----------------------------------------------------------------------------
(* The cached reads of database.py among the calls that change or delete  *)
(* the rows they cache.  A read is not counted against the budget of calls. *)

\* the days arguments of the cleanups
RetentionDays == {0, 1}

GetUser ==
    /\ variant = "db"
    /\ \E cu \in ChatUsers :
         LET after == CacheAfterRead(UserKey(cu[1], cu[2]), SelectUser(cu[1], cu[2]), UserTtl)
         IN  /\ cache' = after.cache
             /\ cache_ttl' = after.ttl
             /\ lastOp' = [op |-> "get_user", chat_id |-> cu[1], user_id |-> cu[2],
                           result |-> get_user(cu[1], cu[2])]
    /\ UNCHANGED <<variant, moreVars, otherVars, now, dbVars, group_data, nOps, pf>>

GetGroup ==
    /\ variant = "db"
    /\ \E c \in Chats :
         LET after == CacheAfterRead(GroupKey(c), SelectGroup(c), GroupTtl)
         IN  /\ cache' = after.cache
             /\ cache_ttl' = after.ttl
             /\ lastOp' = [op |-> "get_group", chat_id |-> c, result |-> get_group(c)]
    /\ UNCHANGED <<variant, moreVars, otherVars, now, dbVars, group_data, nOps, pf>>

UpdateUserLastUpdated ==
    /\ variant = "db" /\ Call
    /\ \E cu \in ChatUsers :
         /\ users' = update_user_last_updated(cu[1], cu[2], Some(now.day))
         /\ cache' = Pop(cache, {UserKey(cu[1], cu[2])})
         /\ lastOp' = [op |-> "update_user_last_updated", chat_id |-> cu[1],
                       user_id |-> cu[2]]
    /\ UNCHANGED <<variant, moreVars, otherVars, now, groups, daily_statistics, user_activities,
                   monthly_statistics, group_data, pf, cache_ttl>>

\* neither cleanup touches self._cache
CleanupOldData ==
    /\ variant = "db" /\ Call
    /\ \E days \in RetentionDays :
         /\ SetTables(cleanup_old_data(days))
         /\ lastOp' = [op |-> "cleanup_old_data", days |-> days]
    /\ UNCHANGED <<variant, moreVars, otherVars, now, groups, group_data, pf, cacheVars>>

CleanupInactiveUsers ==
    /\ variant = "db" /\ Call
    /\ \E days \in RetentionDays :
         /\ SetTables(cleanup_inactive_users(days))
         /\ lastOp' = [op |-> "cleanup_inactive_users", days |-> days]
    /\ UNCHANGED <<variant, moreVars, otherVars, now, groups, group_data, pf, cacheVars>>

NextCache ==
    \/ Tick
    \/ InitGroup
    \/ UpdateGroupResetTime
    \/ InitUser
    \/ UpdateUserActivity
    \/ UpdateUserLastUpdated
    \/ CompleteUserActivityWith({0})
    \/ ResetUserDailyDataWith({})
    \/ CleanupOldData
    \/ CleanupInactiveUsers
    \/ GetUser
    \/ GetGroup

SpecCache == InitReset /\ [][NextCache]_vars

NextReset ==
    \/ Tick
    \/ InitGroup
    \/ UpdateGroupResetTime
    \/ InitUser
    \/ UpdateUserActivity
    \/ CompleteUserActivityWith({0})
    \/ ResetUserDailyDataWith({NotADate})
    \/ SoftResetGroup
    \/ CleanupMonthlyData

SpecReset == InitReset /\ [][NextReset]_vars

----------------------------------------------------------------------------
(* The fine functions on their own: a behaviour applies one of them to an  *)
(* input and records the input and the result in pf                        *)

\* tier dictionaries: every key set over SegmentKeys, every amount over TierAmounts
FineTierMaps == UNION {[D -> TierAmounts] : D \in SUBSET SegmentKeys}
OvertimeMinutes == {0, 5, 10, 11, 30, 45}
OvertimeSeconds == {0, 300, 600, 660, 1800, 2700}

\* Config.DEFAULT_WORK_FINE_RATES, one checkin type's tiers
DefaultWorkFines ==
    [k \in {"60", "120", "180", "240", "max"} |->
        CASE k = "60" -> 50 [] k = "120" -> 100 [] k = "180" -> 200
          [] k = "240" -> 300 [] k = "max" -> 500]
WorkFineMaps ==
    {[k \in D |-> f * DefaultWorkFines[k]] :
        D \in {DOMAIN DefaultWorkFines, {"60", "max"}}, f \in {1, 2}}
CheckinTypes == {"work_start", "work_end", "lunch"}
LateMinutes == {-241, -75, 0, 1, 60, 61, 75, 120, 121, 180, 181, 240, 241}

InitFine ==
    /\ variant = "fine"
    /\ now = [day |-> 1, tod |-> 0]
    /\ groups = <<>>
    /\ users = <<>>
    /\ daily_statistics = EmptyBag
    /\ user_activities = EmptyBag
    /\ monthly_statistics = EmptyBag
    /\ group_data = <<>>
    /\ lastOp = [op |-> "init"]
    /\ nOps = 0
    /\ pf = [fn |-> "none"]
    /\ cache = <<>>
    /\ cache_ttl = <<>>
    /\ InitOther

\* calculate_fine with fine_rates holding the tiers for the activity, or
\* holding nothing for it
CalculateFine ==
    /\ pf.fn = "none"
    /\ \E tiers \in FineTierMaps, configured \in BOOLEAN, activity \in Activities,
          overtime_minutes \in OvertimeMinutes :
         LET rates == IF configured THEN [a \in {activity} |-> tiers] ELSE <<>>
         IN  pf' = [fn |-> "calculate_fine", configured |-> configured,
                    tiers |-> IF configured THEN tiers ELSE <<>>,
                    value |-> overtime_minutes,
                    result |-> calculate_fine(rates, activity, overtime_minutes)]
    /\ UNCHANGED <<variant, moreVars, otherVars, now, dbVars, group_data, lastOp, nOps, cacheVars>>

SettlementFine ==
    /\ pf.fn = "none"
    /\ \E tiers \in FineTierMaps, overtime_sec \in OvertimeSeconds :
         pf' = [fn |-> "settlement_fine", tiers |-> tiers, value |-> overtime_sec,
                result |-> settlement_fine(tiers, overtime_sec)]
    /\ UNCHANGED <<variant, moreVars, otherVars, now, dbVars, group_data, lastOp, nOps, cacheVars>>

CalculateWorkFine ==
    /\ pf.fn = "none"
    /\ \E tiers \in WorkFineMaps, checkin_type \in CheckinTypes,
          late_minutes \in LateMinutes :
         LET rates == [t \in {"work_start", "work_end"} |-> tiers]
         IN  pf' = [fn |-> "calculate_work_fine", tiers |-> tiers,
                    checkin_type |-> checkin_type, value |-> late_minutes,
                    result |-> calculate_work_fine(rates, checkin_type, late_minutes)]
    /\ UNCHANGED <<variant, moreVars, otherVars, now, dbVars, group_data, lastOp, nOps, cacheVars>>

NextFine ==
    \/ CalculateFine
    \/ SettlementFine
    \/ CalculateWorkFine

SpecFine == InitFine /\ [][NextFine]_vars

----------------------------------------------------------------------------
(* Properties: complete_user_activity *)

CompleteStepTaken == lastOp'.op = "complete_user_activity"
CompleteFailed == CompleteStepTaken /\ lastOp'.failed
CompleteKey == <<lastOp'.chat_id, lastOp'.user_id>>

\* C1: complete_user_activity is all-or-nothing.  Whenever a call fails, at
\* whichever statement of the fan-out, daily_statistics, user_activities,
\* monthly_statistics and users are after the call exactly what they were
\* before it.
C1_AllOrNothing ==
    [][CompleteFailed =>
          /\ daily_statistics' = daily_statistics
          /\ user_activities' = user_activities
          /\ monthly_statistics' = monthly_statistics
          /\ users' = users]_vars

\* a call failed at statement 3, after the daily_statistics and
\* user_activities upserts and before the later writes, on tables that hold rows
C1_Witness ==
    /\ lastOp.op = "complete_user_activity"
    /\ lastOp.failed
    /\ lastOp.fault = 3
    /\ BagCardinality(daily_statistics) > 0

\* C2: when complete_user_activity fails the caller gets the exception, not
\* a return value, and every user's current_activity and activity_start_time
\* are what they were before the call.
C2_FailurePropagates ==
    [][CompleteFailed =>
          /\ lastOp'.outcome = "raised"
          /\ DOMAIN users' = DOMAIN users
          /\ \A k \in DOMAIN users :
                /\ users'[k].current_activity = users[k].current_activity
                /\ users'[k].activity_start_time = users[k].activity_start_time]_vars

\* the completion of an in-progress activity failed and the activity is
\* still in progress
C2_Witness ==
    /\ lastOp.op = "complete_user_activity"
    /\ lastOp.failed
    /\ lastOp.outcome = "raised"
    /\ <<lastOp.chat_id, lastOp.user_id>> \in DOMAIN users
    /\ users[<<lastOp.chat_id, lastOp.user_id>>].current_activity = Some(lastOp.activity)
    /\ users[<<lastOp.chat_id, lastOp.user_id>>].activity_start_time # NULL

\* a successful call directly after a successful call with the same chat,
\* user, activity and elapsed time, at the same instant
SecondIdenticalCall ==
    /\ CompleteStepTaken /\ ~lastOp'.failed
    /\ lastOp.op = "complete_user_activity" /\ ~lastOp.failed
    /\ lastOp'.chat_id = lastOp.chat_id
    /\ lastOp'.user_id = lastOp.user_id
    /\ lastOp'.activity = lastOp.activity
    /\ Val(lastOp'.amounts).elapsed_time = Val(lastOp.amounts).elapsed_time

\* table holds a row of the call's chat, user and activity that has
\* accumulated at least n calls of the elapsed time
Accumulated(table, call, n) ==
    \E r \in BagToSet(table) :
       /\ r.chat_id = call.chat_id /\ r.user_id = call.user_id
       /\ r.activity_name = call.activity
       /\ r.activity_count >= n
       /\ r.accumulated_time >= n * Val(call.amounts).elapsed_time

\* C3: upserts accumulate.  After two successful calls with the same chat,
\* user, activity and elapsed time e on the same business date and month, the
\* daily_statistics row, the user_activities row and the monthly_statistics
\* row of that key each hold a count of (at least) 2 and a time of 2e.
C3_Claim ==
    [][SecondIdenticalCall =>
          /\ Accumulated(daily_statistics', lastOp', 2)
          /\ Accumulated(user_activities', lastOp', 2)
          /\ Accumulated(monthly_statistics', lastOp', 2)]_vars

\* C4: for every combination of fine_amount and is_overtime, a call that
\* meets no failure of the connection, for a user that has a row, succeeds
\* and changes the row by exactly: total_accumulated_time += elapsed,
\* total_activity_count += 1, current_activity and activity_start_time
\* cleared, last_updated = the calendar date, total_fines += fine_amount when
\* fine_amount > 0, overtime_count += 1 and total_overtime_time +=
\* max(0, elapsed - time_limit * 60) when is_overtime.
C4_Claim ==
    [][(CompleteStepTaken /\ lastOp'.fault = 0 /\ CompleteKey \in DOMAIN users) =>
          LET a == Val(lastOp'.amounts)
              old == users[CompleteKey]
              over == a.elapsed_time - activity_limits[lastOp'.activity].time_limit * 60
          IN  /\ ~lastOp'.failed
              /\ users'[CompleteKey] =
                   [current_activity |-> NULL, activity_start_time |-> NULL,
                    total_accumulated_time |-> old.total_accumulated_time + a.elapsed_time,
                    total_activity_count |-> old.total_activity_count + 1,
                    total_fines |-> old.total_fines + a.fine_amount,
                    overtime_count |->
                        old.overtime_count + (IF a.is_overtime THEN 1 ELSE 0),
                    total_overtime_time |->
                        old.total_overtime_time
                          + (IF a.is_overtime /\ over > 0 THEN over ELSE 0),
                    last_updated |-> Some(now.day)]]_vars

\* C5: get_business_date(chat_id) is the previous calendar date while the
\* clock is before the group's reset time of day (the configured default for
\* an unknown group) and the calendar date from the reset time on.
C5_Claim ==
    variant = "db" =>
       \A c \in Chats :
          LET reset == IF c \in DOMAIN groups
                       THEN groups[c].reset_hour * 60 + groups[c].reset_minute
                       ELSE DAILY_RESET_HOUR * 60 + DAILY_RESET_MINUTE
          IN  get_business_date(c)
                 = (IF now.tod < reset THEN Some(now.day - 1) ELSE Some(now.day))

----------------------------------------------------------------------------
(* Properties: fines *)

\* the thresholds of a tier dictionary, its keys read as minutes
Thresholds(tiers) == {IntOf(StripMin(k)) : k \in DOMAIN tiers}
\* the amount configured for threshold t
AmountAt(tiers, t) ==
    LET k == CHOOSE x \in DOMAIN tiers : IntOf(StripMin(x)) = t IN tiers[k]
\* every key is a decimal numeral (the keys calculate_fine accepts)
NumeralKeys(tiers) == \A k \in DOMAIN tiers : IsDigit(k)
\* no threshold is configured twice, as "10" and as "10min"
OneKeyPerThreshold(tiers) ==
    \A j, k \in DOMAIN tiers : IntOf(StripMin(j)) = IntOf(StripMin(k)) => j = k
Least(S) == CHOOSE x \in S : \A y \in S : x <= y
Greatest(S) == CHOOSE x \in S : \A y \in S : x >= y

\* C6: the tier lookup picks the smallest threshold that is >= the overtime,
\* inclusive: whenever some threshold is >= the overtime, the fine is the
\* amount configured for the smallest such threshold, whatever that amount
\* is; in calculate_fine and in the settlement of reset_user_daily_data.
C6_Claim ==
    /\ (pf.fn = "calculate_fine" /\ pf.configured /\ NumeralKeys(pf.tiers)) =>
          LET matching == {t \in Thresholds(pf.tiers) : pf.value <= t}
          IN  matching # {} =>
                 /\ ~pf.result.raised
                 /\ pf.result.value = AmountAt(pf.tiers, Least(matching))
    /\ (pf.fn = "settlement_fine" /\ OneKeyPerThreshold(pf.tiers) /\ pf.value > 0) =>
          LET matching == {t \in Thresholds(pf.tiers) : pf.value <= t * 60}
          IN  matching # {} => pf.result = AmountAt(pf.tiers, Least(matching))

\* C7: when the overtime exceeds every configured threshold the fine is the
\* amount of the largest threshold, and with no tiers configured for the
\* activity the fine is 0; in calculate_fine and in the settlement.
C7_Saturation ==
    /\ (pf.fn = "calculate_fine" /\ pf.configured /\ NumeralKeys(pf.tiers)
          /\ DOMAIN pf.tiers # {} /\ \A t \in Thresholds(pf.tiers) : pf.value > t) =>
          /\ ~pf.result.raised
          /\ pf.result.value = AmountAt(pf.tiers, Greatest(Thresholds(pf.tiers)))
    /\ (pf.fn = "calculate_fine" /\ (~pf.configured \/ DOMAIN pf.tiers = {})) =>
          /\ ~pf.result.raised
          /\ pf.result.value = 0
    /\ (pf.fn = "settlement_fine" /\ OneKeyPerThreshold(pf.tiers)
          /\ DOMAIN pf.tiers # {} /\ \A t \in Thresholds(pf.tiers) : pf.value > t * 60) =>
          pf.result = AmountAt(pf.tiers, Greatest(Thresholds(pf.tiers)))
    /\ (pf.fn = "settlement_fine" /\ DOMAIN pf.tiers = {}) => pf.result = 0

\* tiers {10: 100, 30: 300} and 45 minutes of overtime: the fine is 300
C7_Witness ==
    /\ pf.fn = "calculate_fine" /\ pf.configured
    /\ DOMAIN pf.tiers = {"10", "30"}
    /\ pf.tiers["10"] = 100 /\ pf.tiers["30"] = 300
    /\ pf.value = 45
    /\ pf.result.value = 300

\* the tier key of a deviation of m > 0 minutes
WorkTierKey(m) ==
    IF m <= 60 THEN "60" ELSE IF m <= 120 THEN "120" ELSE IF m <= 180 THEN "180"
    ELSE IF m <= 240 THEN "240" ELSE "max"

\* C8: for a configured checkin type and a deviation of m minutes in absolute
\* value, calculate_work_fine returns 0 when m = 0 and otherwise the amount
\* of the tier "60" (0 < m <= 60), "120" (60 < m <= 120), "180"
\* (120 < m <= 180), "240" (180 < m <= 240) or "max" (m > 240).
C8_WorkFineTiers ==
    (pf.fn = "calculate_work_fine" /\ pf.checkin_type \in {"work_start", "work_end"}) =>
       LET m == IF pf.value < 0 THEN 0 - pf.value ELSE pf.value
       IN  /\ m = 0 => pf.result = 0
           /\ (m > 0 /\ WorkTierKey(m) \in DOMAIN pf.tiers) =>
                 pf.result = pf.tiers[WorkTierKey(m)]

\* 75 minutes early against {60: 50, 120: 100, ...}: the fine is 100
C8_Witness ==
    /\ pf.fn = "calculate_work_fine"
    /\ pf.checkin_type = "work_end"
    /\ pf.tiers = DefaultWorkFines
    /\ pf.value = -75
    /\ pf.result = 100

----------------------------------------------------------------------------
(* Properties: the in-progress activity *)

\* C9: in every reachable state, each user has at most one in-progress
\* activity: current_activity is non-null exactly when activity_start_time
\* is, in the users table and in the member records of group_data.
C9_ActivityIffStartTime ==
    /\ \A k \in DOMAIN users :
          (users[k].current_activity # NULL) <=> (users[k].activity_start_time # NULL)
    /\ \A uid \in DOMAIN group_data :
          (group_data[uid].activity # NULL) <=> (group_data[uid].start_time # NULL)

\* one member is away on an activity while another has come back from one
C9_Witness ==
    \E u1, u2 \in DOMAIN group_data :
       /\ group_data[u1].activity # NULL /\ group_data[u1].start_time # NULL
       /\ group_data[u2].activity = NULL /\ group_data[u2].start_time = NULL
       /\ group_data[u2].total_count > 0

\* C10: when reset_user_daily_data is called for one user who has an
\* in-progress activity, then after the call the monthly_statistics row of
\* (chat, user, first day of the month the activity started in, activity)
\* has its activity_count increased by 1 and its accumulated_time by the
\* seconds elapsed since the start, and the user's current_activity is null.
C10_Claim ==
    [][(/\ lastOp'.op = "reset_user_daily_data"
        /\ lastOp'.user_id # NULL
        /\ <<lastOp'.chat_id, Val(lastOp'.user_id)>> \in DOMAIN users
        /\ users[<<lastOp'.chat_id, Val(lastOp'.user_id)>>].current_activity # NULL) =>
          LET c == lastOp'.chat_id
              u == Val(lastOp'.user_id)
              old == users[<<c, u>>]
              start == fromisoformat(Val(old.activity_start_time))
              elapsed == Seconds(now) - Seconds(start)
              IsRow(r) == /\ r.chat_id = c /\ r.user_id = u
                          /\ r.statistic_date = Some(MonthStart(start.day))
                          /\ r.activity_name = Val(old.current_activity)
              before == {r \in BagToSet(monthly_statistics) : IsRow(r)}
              count0 == IF before = {} THEN 0
                        ELSE (CHOOSE r \in before : TRUE).activity_count
              time0 == IF before = {} THEN 0
                       ELSE (CHOOSE r \in before : TRUE).accumulated_time
          IN  /\ users'[<<c, u>>].current_activity = NULL
              /\ \E r \in BagToSet(monthly_statistics') :
                    /\ IsRow(r)
                    /\ r.activity_count = count0 + 1
                    /\ r.accumulated_time = time0 + elapsed]_vars

----------------------------------------------------------------------------
(* Properties: resets and reports *)

\* the target_date arguments of a report: none (the default) or a date
ReportDates == {NULL} \cup {Some(d) : d \in 0..MaxDay}

\* what get_group_statistics(c, target_date) reports for user u, activity a
Reported(c, u, a, target_date) ==
    LET stats == get_group_statistics(c, target_date)
    IN  IF u \in DOMAIN stats THEN stats[u][a] ELSE [count |-> 0, time |-> 0]

SoftResetTaken == lastOp'.op = "soft_reset_group" /\ lastOp'.mode = "soft"

\* C11: soft reset preserves the audit trail.  A completion adds its count
\* and its elapsed time to what get_group_statistics reports for its key on
\* the business date, and a soft-mode soft_reset_group takes nothing away
\* from the report, so that a key completed before and after a soft reset is
\* reported with the sum of both.
C11_Claim ==
    [][\A c \in Chats, u \in Users, a \in Activities :
          /\ (/\ CompleteStepTaken /\ ~lastOp'.failed
              /\ lastOp'.chat_id = c /\ lastOp'.user_id = u /\ lastOp'.activity = a) =>
                \E t \in ReportDates :
                   /\ Reported(c, u, a, t)'.count = Reported(c, u, a, t).count + 1
                   /\ Reported(c, u, a, t)'.time
                         = Reported(c, u, a, t).time + Val(lastOp'.amounts).elapsed_time
          /\ (SoftResetTaken /\ lastOp'.chat_id = c) =>
                \A t \in ReportDates : Reported(c, u, a, t)' = Reported(c, u, a, t)
      ]_vars

\* C12: soft-reset rows coexist with fresh rows.  Every soft-mode
\* soft_reset_group, whatever completions and soft resets came before it on the
\* business date, returns true: no statement of it fails, the flagging of
\* daily_statistics rows against the unique key included.
C12_Claim ==
    [][SoftResetTaken => lastOp'.outcome = [raised |-> FALSE, value |-> TRUE]]_vars

\* a step of reset_user_daily_data on chat c whose target_date is a date or
\* none: for user u alone, or for the whole chat
SingleResetTaken(c, u) ==
    /\ lastOp'.op = "reset_user_daily_data" /\ ~lastOp'.bad_date
    /\ lastOp'.chat_id = c /\ lastOp'.user_id = Some(u)

GroupResetTaken(c) ==
    /\ lastOp'.op = "reset_user_daily_data" /\ ~lastOp'.bad_date
    /\ lastOp'.chat_id = c /\ lastOp'.user_id = NULL

ResetSucceeded == lastOp'.outcome = [raised |-> FALSE, value |-> TRUE]

InScope(table, c, us) == {r \in BagToSet(table) : r.chat_id = c /\ r.user_id \in us}

\* the date a reset without a bad target_date works on: the day of the call
\* or the business date
ResetDates(c) == {Some(now.day), get_business_date_shadowed(c)}

ResetStepTaken == lastOp'.op \in {"reset_user_daily_data", "soft_reset_group"}

C17_ResetNeverRaises ==
    [][lastOp'.op = "reset_user_daily_data" =>
          /\ lastOp'.outcome.raised = FALSE
          /\ lastOp'.outcome.value \in BOOLEAN
          /\ (lastOp'.bad_date => lastOp'.outcome.value = FALSE)]_vars

\* a call with a target_date that is not a date has returned false
C17_Witness ==
    /\ lastOp.op = "reset_user_daily_data"
    /\ lastOp.bad_date
    /\ lastOp.outcome = [raised |-> FALSE, value |-> FALSE]

\* C18: integrity errors are raised, not absorbed.  A call of
\* reset_user_daily_data or of cleanup_monthly_data with a target_date that is
\* not a date raises to its caller and leaves every table as it was.
C18_Claim ==
    [][/\ (lastOp'.op = "reset_user_daily_data" /\ lastOp'.bad_date) =>
             /\ lastOp'.outcome.raised
             /\ <<users, daily_statistics, user_activities, monthly_statistics>>'
                   = <<users, daily_statistics, user_activities, monthly_statistics>>
       /\ (lastOp'.op = "cleanup_monthly_data" /\ lastOp'.bad_date) =>
             /\ lastOp'.raised
             /\ monthly_statistics' = monthly_statistics
      ]_vars

----------------------------------------------------------------------------
(* Properties: monthly history, date keys, synthetic rows *)

CompletedBy(c, u, a) ==
    /\ CompleteStepTaken /\ ~lastOp'.failed
    /\ lastOp'.chat_id = c /\ lastOp'.user_id = u /\ lastOp'.activity = a

\* C22: daily rows and monthly rows use different date keys.  After a
\* completion, daily_statistics and user_activities hold the activity's row
\* under the group's business date (the previous day before the reset time)
\* and monthly_statistics holds it under the first day of the wall-clock month.
C22_Claim ==
    [][\A c \in Chats, u \in Users, a \in Activities :
          CompletedBy(c, u, a) =>
             /\ \E r \in BagToSet(daily_statistics') :
                   /\ r.chat_id = c /\ r.user_id = u /\ r.activity_name = a
                   /\ r.statistic_date = get_business_date_shadowed(c)
             /\ \E r \in BagToSet(user_activities') :
                   /\ r.chat_id = c /\ r.user_id = u /\ r.activity_name = a
                   /\ r.activity_date = get_business_date_shadowed(c)
             /\ \E r \in BagToSet(monthly_statistics') :
                   /\ r.chat_id = c /\ r.user_id = u /\ r.activity_name = a
                   /\ r.statistic_date = Some(MonthStart(now.day))
      ]_vars

\* the sum of a column over the rows that table holds for chat c, user u
\* under the activity name
TotalOf(table, c, u, name, column) ==
    SumRows(table, {r \in BagToSet(table) :
                      r.chat_id = c /\ r.user_id = u /\ r.activity_name = name}, column)

\* C23: synthetic rows are written only under their condition.  A completion
\* the connection does not fail adds to the daily 'total_fines' rows 1 and
\* fine_amount and to the monthly 'total_fines' row fine_amount (count
\* unchanged) when fine_amount > 0, adds to the daily 'overtime_count' rows 1
\* and to 'overtime_time' max(0, elapsed - limit * 60) when is_overtime, and
\* otherwise leaves the rows of these three names as they were.
C23_Claim ==
    [][\A c \in Chats, u \in Users, a \in Activities :
          (/\ CompleteStepTaken /\ lastOp'.amounts # NULL
           /\ lastOp'.chat_id = c /\ lastOp'.user_id = u /\ lastOp'.activity = a) =>
             LET am == Val(lastOp'.amounts)
                 fined == IF am.fine_amount > 0 THEN 1 ELSE 0
                 fine == IF am.fine_amount > 0 THEN am.fine_amount ELSE 0
                 over == IF am.is_overtime THEN 1 ELSE 0
                 overtime_seconds ==
                     IF am.is_overtime
                     THEN Max(0, am.elapsed_time - get_activity_time_limit(a) * 60)
                     ELSE 0
             IN  /\ TotalOf(daily_statistics', c, u, "total_fines", "activity_count")
                       = TotalOf(daily_statistics, c, u, "total_fines", "activity_count") + fined
                 /\ TotalOf(daily_statistics', c, u, "total_fines", "accumulated_time")
                       = TotalOf(daily_statistics, c, u, "total_fines", "accumulated_time") + fine
                 /\ TotalOf(monthly_statistics', c, u, "total_fines", "accumulated_time")
                       = TotalOf(monthly_statistics, c, u, "total_fines", "accumulated_time") + fine
                 /\ TotalOf(monthly_statistics', c, u, "total_fines", "activity_count")
                       = TotalOf(monthly_statistics, c, u, "total_fines", "activity_count")
                 /\ TotalOf(daily_statistics', c, u, "overtime_count", "activity_count")
                       = TotalOf(daily_statistics, c, u, "overtime_count", "activity_count") + over
                 /\ TotalOf(daily_statistics', c, u, "overtime_time", "accumulated_time")
                       = TotalOf(daily_statistics, c, u, "overtime_time", "accumulated_time")
                            + overtime_seconds
      ]_vars

----------------------------------------------------------------------------
(* Properties: cached reads, retention cleanup, idempotent initialisation *)

\* C24: cached reads are invalidated by every mutation of the row.  Whatever
\* calls came before it, get_user returns the users row as stored (none when
\* the row does not exist or was deleted), and get_group the groups row as
\* stored, never an older cached copy.
C24_Claim ==
    [][\A c \in Chats, u \in Users :
          /\ (lastOp'.op = "get_user" /\ lastOp'.chat_id = c /\ lastOp'.user_id = u) =>
                lastOp'.result = SelectUser(c, u)
          /\ (lastOp'.op = "get_group" /\ lastOp'.chat_id = c) =>
                lastOp'.result = SelectGroup(c)
      ]_vars

\* the users row of (c, u) as stored has an activity in progress
StoredInProgress(c, u) ==
    /\ SelectUser(c, u) # NULL
    /\ Val(SelectUser(c, u)).current_activity # NULL
    /\ Val(SelectUser(c, u)).activity_start_time # NULL

CleanupStepTaken ==
    /\ nOps' = nOps + 1
    /\ lastOp'.op \in {"cleanup_old_data", "cleanup_inactive_users"}

\* C27: inactivity cleanup never destroys history.  A cleanup call deletes a
\* users row only if the row's last_updated is older than the retention
\* cutoff and its (chat_id, user_id) has no monthly_statistics row.
C27_Claim ==
    [][\A k \in ChatUsers :
          (CleanupStepTaken /\ k \in DOMAIN users /\ k \notin DOMAIN users') =>
             /\ SqlBefore(users[k].last_updated, CutoffDate(lastOp'.days))
             /\ ~\E m \in BagToSet(monthly_statistics) :
                    m.chat_id = k[1] /\ m.user_id = k[2]
      ]_vars

\* C28: init_group and init_user are idempotent.  Called for a key that
\* already exists, init_group leaves the groups table as it was and
\* init_user leaves the users table as it was: no second row, and running
\* totals, in-progress activity and last_updated of the existing row are
\* not altered (the model carries no nickname column).
C28_Claim ==
    [][\A c \in Chats, u \in Users :
          /\ (/\ nOps' = nOps + 1 /\ lastOp'.op = "init_user"
              /\ lastOp'.chat_id = c /\ lastOp'.user_id = u
              /\ <<c, u>> \in DOMAIN users) => users' = users
          /\ (/\ nOps' = nOps + 1 /\ lastOp'.op = "init_group"
              /\ lastOp'.chat_id = c
              /\ c \in DOMAIN groups) => groups' = groups
      ]_vars

----------------------------------------------------------------------------
(* The per-user lock of main.py: handlers at the grain of their suspensions *)

\* user_locks[key] is not held
LockFree(uid) == user_locks[uid] = "free"

\* async with user_lock: the handler holds the lock of uid
Acquire(uid, handler) == user_locks' = [user_locks EXCEPT ![uid] = handler]

\* daily_reset_task: the section it runs for one member
daily_reset_member(gd, uid) ==
    [gd EXCEPT ![uid] = [ClearDaily(@) EXCEPT !.last_updated = now.day]]

InitLock == Init /\ variant = "json"

\* start_activity: takes the lock and runs _start_activity_locked as far as
\* the awaits that follow its writes (safe_cancel_task, message.answer)
StartActivityEnter ==
    /\ variant = "json" /\ Call
    /\ \E uid \in Users, act \in Activities :
         /\ LockFree(uid)
         /\ Acquire(uid, "start_activity")
         /\ group_data' = start_activity(group_data, uid, act)
         /\ lastOp' = [op |-> "start_activity", uid |-> uid, act |-> act]
    /\ UNCHANGED <<variant, moreVars, now, dbVars, pf, cacheVars, configVars, db_init>>

\* process_back: takes the lock and runs _process_back_locked as far as the
\* awaits that follow its writes (safe_cancel_task, message.answer)
ProcessBackEnter ==
    /\ variant = "json" /\ Call
    /\ \E uid \in Users :
         /\ LockFree(uid)
         /\ Acquire(uid, "process_back")
         /\ group_data' = process_back(group_data, uid)
         /\ lastOp' = [op |-> "process_back", uid |-> uid]
    /\ UNCHANGED <<variant, moreVars, now, dbVars, pf, cacheVars, configVars, db_init>>

\* activity_timer, first section: reads the record under the lock and awaits
\* bot.send_message for the warnings
TimerCheckEnter ==
    /\ variant = "json" /\ Call
    /\ \E uid \in DOMAIN group_data :
         /\ LockFree(uid)
         /\ group_data[uid].activity # NULL
         /\ Acquire(uid, "activity_timer")
         /\ lastOp' = [op |-> "timer_check", uid |-> uid]
    /\ UNCHANGED <<variant, moreVars, now, dbVars, group_data, pf, cacheVars, configVars, db_init>>

\* activity_timer, second section: the forced return, as far as the awaits
\* that follow its writes (schedule_save_data, bot.send_message)
ForcedReturnEnter ==
    /\ variant = "json" /\ Call
    /\ \E uid \in DOMAIN group_data, act \in Activities :
         /\ LockFree(uid)
         /\ ForcedReturnDue(group_data[uid], act, activity_limits[act].time_limit)
         /\ Acquire(uid, "activity_timer")
         /\ group_data' = [group_data EXCEPT ![uid] = MemberAfterForcedReturn(@, act)]
         /\ lastOp' = [op |-> "forced_return", uid |-> uid, act |-> act]
    /\ UNCHANGED <<variant, moreVars, now, dbVars, pf, cacheVars, configVars, db_init>>

\* the handler inside its section finishes: async with user_lock exits
SectionExit ==
    /\ variant = "json"
    /\ \E uid \in Users :
         /\ ~LockFree(uid)
         /\ user_locks' = [user_locks EXCEPT ![uid] = "free"]
         /\ lastOp' = [op |-> "release", uid |-> uid]
    /\ UNCHANGED <<variant, moreVars, now, dbVars, group_data, nOps, pf, cacheVars, configVars,
                   db_init>>

\* daily_reset_task at the reset minute: one member's section, which holds
\* no await (the lock is taken and released within the step)
DailyResetMember ==
    /\ variant = "json" /\ Call
    /\ now.tod = DAILY_RESET_HOUR * 60 + DAILY_RESET_MINUTE
    /\ \E uid \in DOMAIN group_data :
         /\ LockFree(uid)
         /\ group_data' = daily_reset_member(group_data, uid)
         /\ lastOp' = [op |-> "daily_reset", uid |-> uid]
    /\ UNCHANGED <<variant, moreVars, otherVars, now, dbVars, pf, cacheVars>>

NextLock ==
    \/ Tick
    \/ StartActivityEnter
    \/ ProcessBackEnter
    \/ TimerCheckEnter
    \/ ForcedReturnEnter
    \/ SectionExit
    \/ DailyResetMember
    \/ CmdReset

SpecLock == InitLock /\ [][NextLock]_vars

\* the member record of uid, if there is one
MemberOf(gd, uid) == IF uid \in DOMAIN gd THEN Some(gd[uid]) ELSE NULL

\* C26: per-user serialization.  While a handler is suspended inside its
\* locked section for a user (the lock is held before and after the step),
\* no step mutates that user's in-memory record.
C26_Claim ==
    [][\A uid \in Users :
          (~LockFree(uid) /\ user_locks'[uid] = user_locks[uid]) =>
             MemberOf(group_data', uid) = MemberOf(group_data, uid)
      ]_vars

----------------------------------------------------------------------------
(* Activity configuration: activity_configs, fine_configs and the cached limits *)

LimitsKey == <<"activity_limits">>

\* the ttl argument of _set_cached in get_activity_limits
LimitsTtl == 300

\* arguments of update_activity_config
ConfigMaxTimes == {2, 3}
ConfigTimeLimits == {30, 45}

\* update_activity_config: the tiers it seeds when Config.DEFAULT_FINE_RATES
\* has no "default" entry
DefaultFines ==
    [seg \in {"30min", "60min", "120min"} |->
        CASE seg = "30min" -> 5 [] seg = "60min" -> 10 [] OTHER -> 20]

\* update_activity_config(activity, max_times, time_limit): the two tables
\* after its transaction (upsert of the activity, default tiers ON CONFLICT
\* DO NOTHING)
update_activity_config(activity, max_times, time_limit) ==
    LET seeded == {<<activity, seg>> : seg \in DOMAIN DefaultFines}
    IN  [configs |-> [a \in DOMAIN activity_configs \cup {activity} |->
                         IF a = activity
                         THEN [max_times |-> max_times, time_limit |-> time_limit]
                         ELSE activity_configs[a]],
         fines |-> [k \in DOMAIN fine_config_rows \cup seeded |->
                       IF k \in DOMAIN fine_config_rows
                       THEN fine_config_rows[k]
                       ELSE DefaultFines[k[2]]]]

\* delete_activity_config(activity): the two tables after its transaction
delete_activity_config(activity) ==
    [configs |-> [a \in DOMAIN activity_configs \ {activity} |-> activity_configs[a]],
     fines |-> [k \in {x \in DOMAIN fine_config_rows : x[1] # activity} |->
                   fine_config_rows[k]]]

\* get_activity_limits(): what a call made now returns, the cached dict if
\* there is one, else the rows of activity_configs
get_activity_limits ==
    IF CachedValue(LimitsKey) # NULL THEN Val(CachedValue(LimitsKey)) ELSE activity_configs

\* limits.get(activity, {}).get(field, 0)
LimitOf(limits, activity, field) ==
    IF activity \in DOMAIN limits THEN limits[activity][field] ELSE 0

\* get_activity_time_limit(activity) on the limits get_activity_limits returns
get_activity_time_limit_cached(activity) == LimitOf(get_activity_limits, activity, "time_limit")

get_activity_max_times(activity) == LimitOf(get_activity_limits, activity, "max_times")

\* activity_exists(activity): the cached dict if there is one, else
\* SELECT 1 FROM activity_configs WHERE activity_name = $1
activity_exists(activity) ==
    IF CachedValue(LimitsKey) # NULL
    THEN activity \in DOMAIN Val(CachedValue(LimitsKey))
    ELSE activity \in DOMAIN activity_configs

\* SELECT time_segment FROM fine_configs WHERE activity_name = $1
FineTiers(activity) == {k[2] : k \in {x \in DOMAIN fine_config_rows : x[1] = activity}}

UpdateActivityConfig ==
    /\ variant = "db" /\ Call
    /\ \E a \in ConfigNames, m \in ConfigMaxTimes, t \in ConfigTimeLimits :
         LET after == update_activity_config(a, m, t)
         IN  /\ activity_configs' = after.configs
             /\ fine_config_rows' = after.fines
             /\ cache' = Pop(cache, {LimitsKey})
             /\ last_config_write' =
                   [last_config_write EXCEPT ![a] =
                       Some([op |-> "update", max_times |-> m, time_limit |-> t])]
             /\ lastOp' = [op |-> "update_activity_config", activity |-> a,
                           max_times |-> m, time_limit |-> t]
    /\ UNCHANGED <<variant, moreVars, now, dbVars, group_data, pf, cache_ttl, limits_fetch,
                   user_locks, db_init>>

DeleteActivityConfig ==
    /\ variant = "db" /\ Call
    /\ \E a \in ConfigNames :
         LET after == delete_activity_config(a)
         IN  /\ activity_configs' = after.configs
             /\ fine_config_rows' = after.fines
             /\ cache' = Pop(cache, {LimitsKey})
             /\ last_config_write' =
                   [last_config_write EXCEPT ![a] = Some([op |-> "delete"])]
             /\ lastOp' = [op |-> "delete_activity_config", activity |-> a]
    /\ UNCHANGED <<variant, moreVars, now, dbVars, group_data, pf, cache_ttl, limits_fetch,
                   user_locks, db_init>>

\* get_activity_limits as far as await conn.fetch: a cached dict is returned
\* at once; on a miss the rows of activity_configs are read and the call is
\* suspended until the fetch returns
GetActivityLimitsFetch ==
    /\ variant = "db"
    /\ limits_fetch = NULL
    /\ LET after == CacheAfterRead(LimitsKey, NULL, LimitsTtl)
       IN  /\ cache' = after.cache
           /\ cache_ttl' = after.ttl
    /\ IF CachedValue(LimitsKey) # NULL
       THEN /\ limits_fetch' = NULL
            /\ lastOp' = [op |-> "get_activity_limits", result |-> CachedValue(LimitsKey)]
       ELSE /\ limits_fetch' = Some(activity_configs)
            /\ lastOp' = [op |-> "get_activity_limits", result |-> NULL]
    /\ UNCHANGED <<variant, moreVars, now, dbVars, group_data, nOps, pf, activity_configs,
                   fine_config_rows, last_config_write, user_locks, db_init>>

\* get_activity_limits after the fetch returned: _set_cached(key, limits, 300)
GetActivityLimitsStore ==
    /\ variant = "db"
    /\ limits_fetch # NULL
    /\ cache' = Put(cache, LimitsKey, Val(limits_fetch))
    /\ cache_ttl' = Put(cache_ttl, LimitsKey, Time + LimitsTtl)
    /\ limits_fetch' = NULL
    /\ lastOp' = [op |-> "get_activity_limits", result |-> limits_fetch]
    /\ UNCHANGED <<variant, moreVars, now, dbVars, group_data, nOps, pf, activity_configs,
                   fine_config_rows, last_config_write, user_locks, db_init>>

ActivityExists ==
    /\ variant = "db"
    /\ \E a \in ConfigNames :
         /\ LET after == CacheAfterRead(LimitsKey, NULL, LimitsTtl)
            IN  /\ cache' = after.cache
                /\ cache_ttl' = after.ttl
         /\ lastOp' = [op |-> "activity_exists", activity |-> a,
                       result |-> activity_exists(a)]
    /\ UNCHANGED <<variant, moreVars, now, dbVars, group_data, nOps, pf, configVars, user_locks,
                   db_init>>

NextConfig ==
    \/ Tick
    \/ UpdateActivityConfig
    \/ DeleteActivityConfig
    \/ GetActivityLimitsFetch
    \/ GetActivityLimitsStore
    \/ ActivityExists

SpecConfig == InitReset /\ [][NextConfig]_vars

\* C29: activity configuration writes keep activities and fine tiers
\* consistent and visible.  Once update_activity_config(a, max_times,
\* time_limit) has returned, and until the next write of a, activity_exists(a)
\* is true, get_activity_time_limit and get_activity_max_times return the new
\* values and a has at least one fine tier; once delete_activity_config(a) has
\* returned, activity_exists(a) is false and no fine tier of a remains.
C29_Claim ==
    \A a \in ConfigNames :
       last_config_write[a] # NULL =>
          LET w == Val(last_config_write[a])
          IN  IF w.op = "update"
              THEN /\ activity_exists(a)
                   /\ get_activity_time_limit_cached(a) = w.time_limit
                   /\ get_activity_max_times(a) = w.max_times
                   /\ FineTiers(a) # {}
              ELSE /\ ~activity_exists(a)
                   /\ FineTiers(a) = {}

----------------------------------------------------------------------------
(* initialize(): connect with retry *)

max_retries == 5

\* a backoff that grows by two seconds per attempt instead of doubling
retry_delay_linear(attempt) == 2 * attempt

\* retry_delay = 2**attempt
retry_delay(attempt) == 2 ^ attempt

\* the object as constructed: self._initialized = False
Unconnected == [initialized |-> FALSE, call |-> [k \in Callers |-> IdleCaller]]

InitConnect ==
    /\ variant = "db"
    /\ now = [day |-> 1, tod |-> 0]
    /\ groups = <<>>
    /\ users = <<>>
    /\ daily_statistics = EmptyBag
    /\ user_activities = EmptyBag
    /\ monthly_statistics = EmptyBag
    /\ group_data = <<>>
    /\ lastOp = [op |-> "init"]
    /\ nOps = 0
    /\ pf = [fn |-> "none"]
    /\ cache = <<>>
    /\ cache_ttl = <<>>
    /\ user_locks = [uid \in Users |-> "free"]
    /\ activity_configs = <<>>
    /\ fine_config_rows = <<>>
    /\ limits_fetch = NULL
    /\ last_config_write = [a \in ConfigNames |-> NULL]
    /\ db_init = Unconnected
    /\ InitMore

SetCaller(k, c, flag) ==
    db_init' = [initialized |-> flag, call |-> [db_init.call EXCEPT ![k] = c]]

\* caller k enters initialize(): it returns at once when self._initialized
\* is set, else it starts the first attempt
Enter(k) ==
    /\ db_init.call[k].pc = "idle"
    /\ IF db_init.initialized
       THEN SetCaller(k, [IdleCaller EXCEPT !.result = "returned"], TRUE)
       ELSE SetCaller(k, [IdleCaller EXCEPT !.pc = "attempt"], FALSE)
    /\ lastOp' = [op |-> "initialize", caller |-> k,
                  was_initialized |-> db_init.initialized]

\* one pass of the loop body of caller k: _initialize_impl and SET timezone
\* either return (ok) or raise
Attempt(k, ok) ==
    LET c == db_init.call[k]
        tried == [c EXCEPT !.made = @ + 1]
    IN  /\ c.pc = "attempt"
        /\ IF ok
           THEN SetCaller(k, [tried EXCEPT !.pc = "idle", !.result = "returned"], TRUE)
           ELSE IF c.attempt = max_retries - 1
                THEN SetCaller(k, [tried EXCEPT !.pc = "idle", !.result = "raised"],
                               db_init.initialized)
                ELSE SetCaller(k, [tried EXCEPT !.pc = "sleep",
                                                !.slept = Append(@, retry_delay(c.attempt))],
                               db_init.initialized)
        /\ lastOp' = [op |-> "attempt", caller |-> k, ok |-> ok]
        /\ UNCHANGED <<variant, moreVars, now, dbVars, group_data, nOps, pf, cacheVars, user_locks,
                     configVars>>

\* await asyncio.sleep(retry_delay) returns: the loop takes the next attempt
Wake(k) ==
    LET c == db_init.call[k]
    IN  /\ c.pc = "sleep"
        /\ SetCaller(k, [c EXCEPT !.pc = "attempt", !.attempt = @ + 1], db_init.initialized)
        /\ lastOp' = [op |-> "wake", caller |-> k]
        /\ UNCHANGED <<variant, moreVars, now, dbVars, group_data, nOps, pf, cacheVars, user_locks,
                     configVars>>

Initialize ==
    /\ Call
    /\ \E k \in Callers : Enter(k)
    /\ UNCHANGED <<variant, moreVars, now, dbVars, group_data, pf, cacheVars, user_locks, configVars>>

AttemptSucceeds == \E k \in Callers : Attempt(k, TRUE)

AttemptFails == \E k \in Callers : Attempt(k, FALSE)

SleepReturns == \E k \in Callers : Wake(k)

NextInit ==
    \/ Initialize
    \/ AttemptSucceeds
    \/ AttemptFails
    \/ SleepReturns

\* an attempt returns or raises, and a sleep returns
SpecInit ==
    /\ InitConnect
    /\ [][NextInit]_vars
    /\ \A k \in Callers :
          /\ WF_vars(Attempt(k, TRUE) \/ Attempt(k, FALSE))
          /\ WF_vars(Wake(k))

\* what every call of initialize has done so far: at most 5 attempts, the
\* delays 1, 2, 4, 8 in this order, and an exception only after 5 attempts
BoundedRetry ==
    \A k \in Callers :
       LET c == db_init.call[k]
       IN  /\ c.made <= 5
           /\ Len(c.slept) <= 4
           /\ c.slept = SubSeq(<<1, 2, 4, 8>>, 1, Len(c.slept))
           /\ c.pc = "attempt" => Len(c.slept) = c.made
           /\ c.result = "raised" => c.made = 5 /\ c.slept = <<1, 2, 4, 8>>

\* what the step just taken by initialize did: a successful attempt set the
\* flag and returned at once, a failed attempt raised exactly when it was
\* the 5th and went to sleep otherwise, and a call made with the flag set
\* returned without an attempt
RetryStep ==
    \A k \in Callers :
       LET c == db_init.call[k]
       IN  /\ (lastOp.op = "attempt" /\ lastOp.caller = k /\ lastOp.ok) =>
                 /\ db_init.initialized
                 /\ c.pc = "idle" /\ c.result = "returned"
           /\ (lastOp.op = "attempt" /\ lastOp.caller = k /\ ~lastOp.ok) =>
                 /\ (c.pc = "idle" /\ c.result = "raised") <=> c.made = 5
                 /\ c.made < 5 => c.pc = "sleep"
           /\ (lastOp.op = "initialize" /\ lastOp.caller = k) =>
                 /\ c.made = 0
                 /\ IF lastOp.was_initialized
                    THEN c.pc = "idle" /\ c.result = "returned" /\ db_init.initialized
                    ELSE c.pc = "attempt"

\* C30: initialize connects with a bounded retry.  A call makes at most 5
\* attempts with delays 1, 2, 4, 8 seconds between them, returns as soon as
\* one attempt succeeds, setting the initialized flag, after which further
\* calls are no-ops, and raises after the 5th failed attempt; every call
\* that was started ends.
C30_BoundedRetry ==
    /\ [](BoundedRetry /\ RetryStep)
    /\ \A k \in Callers : (db_init.call[k].pc # "idle") ~> (db_init.call[k].pc = "idle")

\* one call raised after five failures and four sleeps, another caller's
\* call returned with the flag set, and its next call was a no-op
C30_Witness ==
    \E k, j \in Callers :
       /\ db_init.call[k].result = "raised" /\ db_init.call[k].slept = <<1, 2, 4, 8>>
       /\ db_init.call[j].pc = "idle" /\ db_init.call[j].result = "returned"
       /\ db_init.call[j].made = 0
       /\ db_init.initialized /\ nOps = 3

----------------------------------------------------------------------------
(* get_all_groups: retry with reconnect *)

\* get_all_groups(retries=3, delay=2.0): the retries a caller may pass
GroupRetries == {1, 2, 3}

groups_delay == 2

\* reconnect(max_retries=3)
reconnect_max_retries == 3

\* what conn.fetch can raise: the classes of the first except clause, or
\* anything else
FetchErrors == {"connectivity", "other"}

\* the except clauses of get_all_groups with no clause for Exception
get_all_groups_handler_narrow(kind) ==
    IF kind = "connectivity" THEN "reconnect" ELSE "raise"

\* the except clauses of get_all_groups: InterfaceError,
\* PostgresConnectionError and TimeoutError lead to reconnect, any other
\* Exception (the AttributeError of self.pool = None among them) to return []
get_all_groups_handler(kind) ==
    IF kind = "connectivity" THEN "reconnect" ELSE "return_empty"

GroupsReturn(result) ==
    groups_call' = [groups_call EXCEPT !.pc = "idle", !.result = result]

\* the exception of kind is raised inside the try of get_all_groups
GroupsRaise(kind) ==
    LET h == get_all_groups_handler(kind)
    IN  IF h = "reconnect"
        THEN groups_call' = [groups_call EXCEPT !.pc = "reconnect", !.reconnect_attempt = 1]
        ELSE GroupsReturn(IF h = "return_empty" THEN "empty" ELSE "raised")

\* reconnect() has returned ok to get_all_groups
AfterReconnect(ok) ==
    IF ok /\ groups_call.attempt < groups_call.retries
    THEN groups_call' = [groups_call EXCEPT
                            !.pc = "sleep",
                            !.slept = Append(@, groups_delay * groups_call.attempt)]
    ELSE GroupsReturn("empty")

\* the except clause of reconnect: sleep and take the next attempt, or
\* return False after the last one
ReconnectFailed ==
    IF groups_call.reconnect_attempt < reconnect_max_retries
    THEN groups_call' = [groups_call EXCEPT !.reconnect_attempt = @ + 1]
    ELSE AfterReconnect(FALSE)

\* reconnect's reset of the object: pool, flag and cache
ResetConnection(p, flag) ==
    /\ pool' = p
    /\ db_init' = [db_init EXCEPT !.initialized = flag]
    /\ cache' = <<>>
    /\ cache_ttl' = <<>>

InitGroups == InitReset

GetAllGroups ==
    /\ variant = "db" /\ Call
    /\ groups_call.pc = "idle"
    /\ \E retries \in GroupRetries :
         /\ groups_call' = [NoGroupsCall EXCEPT !.pc = "fetch", !.retries = retries,
                                                !.attempt = 1]
         /\ lastOp' = [op |-> "get_all_groups", retries |-> retries]
    /\ UNCHANGED <<variant, otherVars, notConnVars, now, dbVars, group_data, pf, cacheVars,
                   pool>>

\* one pass of the try: self.pool.acquire() and the fetch
FetchGroups ==
    /\ groups_call.pc = "fetch"
    /\ \/ /\ pool = "none"
          /\ GroupsRaise("attribute")
          /\ lastOp' = [op |-> "fetch", error |-> Some("attribute")]
       \/ /\ pool = "open"
          /\ GroupsReturn("list")
          /\ lastOp' = [op |-> "fetch", error |-> NULL]
       \/ /\ pool = "open"
          /\ \E kind \in FetchErrors :
               /\ GroupsRaise(kind)
               /\ lastOp' = [op |-> "fetch", error |-> Some(kind)]
    /\ UNCHANGED <<variant, otherVars, notConnVars, now, dbVars, group_data, nOps, pf,
                   cacheVars, pool>>

\* one pass of the loop of reconnect: pool.close() raises; or the state is
\* reset and initialize raises, with or without a pool created; or
\* initialize returns and the health check fails or passes
ReconnectAttempt ==
    /\ groups_call.pc = "reconnect"
    /\ \/ /\ pool # "none"
          /\ ReconnectFailed
          /\ UNCHANGED <<pool, db_init, cacheVars>>
          /\ lastOp' = [op |-> "reconnect", outcome |-> "close_raises"]
       \/ /\ \E p \in {"none", "open"} : ResetConnection(p, FALSE)
          /\ ReconnectFailed
          /\ lastOp' = [op |-> "reconnect", outcome |-> "initialize_raises"]
       \/ /\ ResetConnection("open", TRUE)
          /\ IF groups_call.reconnect_attempt < reconnect_max_retries
             THEN groups_call' = [groups_call EXCEPT !.reconnect_attempt = @ + 1]
             ELSE AfterReconnect(FALSE)
          /\ lastOp' = [op |-> "reconnect", outcome |-> "unhealthy"]
       \/ /\ ResetConnection("open", TRUE)
          /\ AfterReconnect(TRUE)
          /\ lastOp' = [op |-> "reconnect", outcome |-> "healthy"]
    /\ UNCHANGED <<variant, notConnVars, now, dbVars, group_data, nOps, pf, user_locks,
                   configVars>>

\* await asyncio.sleep(sleep_time) returns: the next attempt
GroupsWake ==
    /\ groups_call.pc = "sleep"
    /\ groups_call' = [groups_call EXCEPT !.pc = "fetch", !.attempt = @ + 1]
    /\ lastOp' = [op |-> "wake"]
    /\ UNCHANGED <<variant, otherVars, notConnVars, now, dbVars, group_data, nOps, pf,
                   cacheVars, pool>>

NextGroups ==
    \/ InitGroup
    \/ GetAllGroups
    \/ FetchGroups
    \/ ReconnectAttempt
    \/ GroupsWake

SpecGroups == InitGroups /\ [][NextGroups]_vars

\* C31: get_all_groups is best-effort.  It makes at most `retries` attempts,
\* reconnecting after a connectivity error; when reconnect fails or the
\* attempts are used up it returns the empty list; whatever fails, a pool
\* left unset by a failed reconnect included, it returns a list and does not
\* raise.
C31_BestEffort ==
    /\ groups_call.result \in {"none", "list", "empty"}
    /\ groups_call.attempt <= groups_call.retries
    /\ Len(groups_call.slept) <= groups_call.attempt
    /\ \A i \in 1..Len(groups_call.slept) : groups_call.slept[i] = 2 * i
    /\ (lastOp.op = "fetch" /\ lastOp.error # NULL /\ lastOp.error # Some("connectivity")) =>
          groups_call.pc = "idle" /\ groups_call.result = "empty"
    /\ (lastOp.op = "fetch" /\ lastOp.error = Some("connectivity")) =>
          groups_call.pc = "reconnect"
    /\ (lastOp.op = "reconnect" /\ groups_call.pc \notin {"reconnect", "sleep"}) =>
          groups_call.pc = "idle" /\ groups_call.result = "empty"
    /\ (lastOp.op = "reconnect" /\ groups_call.pc = "sleep") =>
          lastOp.outcome = "healthy" /\ groups_call.attempt < groups_call.retries

\* a call found the pool unset by a failed reconnect and returned the empty
\* list
C31_Witness ==
    /\ lastOp.op = "fetch" /\ lastOp.error = Some("attribute")
    /\ pool = "none"
    /\ groups_call.pc = "idle" /\ groups_call.result = "empty"

----------------------------------------------------------------------------
(* add_work_record and the monthly report *)

\* record_date arguments: one date of an earlier month and two dates of one
\* month
WorkDates == {MonthLen - 1, 2 * MonthLen, 2 * MonthLen + 1}

\* checkin_type arguments of add_work_record
WorkCheckinTypes == {"work_start", "work_end"}

\* checkin_time, "HH:MM", as minutes of the day
CheckinTimes == {540, 1080}

WorkFines == {0, 50}

\* the monthly_statistics row of activity_name 'work_days': the work_days
\* column holds the count, activity_count and accumulated_time their default
WorkDaysRow(c, u, d, n) ==
    [chat_id |-> c, user_id |-> u, statistic_date |-> d, activity_name |-> "work_days",
     activity_count |-> 0, accumulated_time |-> 0, work_days |-> n]

\* _calculate_daily_work_hours: the seconds between the work_start and the
\* work_end of the date, the records taken in the order of checkin_time
WorkSeconds(records, c, u, record_date) ==
    LET s == <<c, u, record_date, "work_start">>
        e == <<c, u, record_date, "work_end">>
    IN  IF s \in DOMAIN records /\ e \in DOMAIN records
           /\ records[s].checkin_time < records[e].checkin_time
        THEN (records[e].checkin_time - records[s].checkin_time) * 60
        ELSE 0

\* add_work_record(chat_id, user_id, record_date, checkin_type, checkin_time,
\* ..., fine_amount): the tables after its transaction
add_work_record(c, u, record_date, checkin_type, checkin_time, fine_amount) ==
    LET statistic_date == MonthStart(record_date)
        key == <<c, u, record_date, checkin_type>>
        \* 1: work_records upsert
        work == [k \in DOMAIN work_records \cup {key} |->
                   IF k = key
                   THEN [checkin_time |-> checkin_time, fine_amount |-> fine_amount]
                   ELSE work_records[k]]
        \* 2: daily_statistics 'work_fine'
        daily == IF fine_amount > 0
                 THEN Upsert(daily_statistics,
                             DailyRow(c, u, Some(record_date), "work_fine", 1, fine_amount,
                                      FALSE),
                             "daily", 1, fine_amount)
                 ELSE daily_statistics
        \* 3: the complete work day
        has_work_start == <<c, u, record_date, "work_start">> \in DOMAIN work
        counted == checkin_type = "work_end" /\ has_work_start
        existing == \E r \in BagToSet(monthly_statistics) :
                       /\ r.chat_id = c /\ r.user_id = u
                       /\ SqlEq(r.statistic_date, Some(statistic_date))
                       /\ r.activity_name = "work_days"
        m1 == IF counted /\ ~existing
              THEN monthly_statistics (+)
                   SetToBag({WorkDaysRow(c, u, Some(statistic_date), 1)})
              ELSE monthly_statistics
        work_seconds == WorkSeconds(work, c, u, record_date)
        m2 == IF counted /\ work_seconds > 0
              THEN Upsert(m1, MonthlyRow(c, u, Some(statistic_date), "work_hours", 0,
                                         work_seconds),
                          "monthly", 0, work_seconds)
              ELSE m1
        \* 4: users and monthly 'total_fines'
        m3 == IF fine_amount > 0
              THEN Upsert(m2, MonthlyRow(c, u, Some(statistic_date), "total_fines", 0,
                                         fine_amount),
                          "monthly", 0, fine_amount)
              ELSE m2
        us == IF fine_amount > 0 /\ <<c, u>> \in DOMAIN users
              THEN [users EXCEPT ![<<c, u>>].total_fines = @ + fine_amount]
              ELSE users
    IN  [daily |-> daily, activities |-> user_activities, users |-> us, monthly |-> m3,
         work |-> work]

\* get_monthly_statistics(chat_id, year, month): for each user of the chat
\* that has a users row and monthly_statistics rows of the month, the sums
\* the report takes from the rows of each name
get_monthly_statistics(c, statistic_date) ==
    LET rows == {r \in BagToSet(monthly_statistics) :
                    /\ r.chat_id = c /\ SqlEq(r.statistic_date, Some(statistic_date))
                    /\ <<c, r.user_id>> \in DOMAIN users}
        Of(u, name) == {r \in rows : r.user_id = u /\ r.activity_name = name}
    IN  [u \in {r.user_id : r \in rows} |->
           [total_fines |-> SumRows(monthly_statistics, Of(u, "total_fines"),
                                    "accumulated_time"),
            work_days |-> SumRows(monthly_statistics, Of(u, "work_days"), "activity_count"),
            work_hours |-> SumRows(monthly_statistics, Of(u, "work_hours"),
                                   "accumulated_time")]]

InitWork == InitReset

AddWorkRecord ==
    /\ variant = "db" /\ Call
    /\ \E cu \in ChatUsers, d \in WorkDates, ty \in WorkCheckinTypes, t \in CheckinTimes,
          f \in WorkFines :
         LET after == add_work_record(cu[1], cu[2], d, ty, t, f)
         IN  /\ SetTables(after)
             /\ work_records' = after.work
             /\ cache' = Pop(cache, {UserKey(cu[1], cu[2])})
             /\ lastOp' = [op |-> "add_work_record", chat_id |-> cu[1], user_id |-> cu[2],
                           record_date |-> d, checkin_type |-> ty, fine_amount |-> f]
    /\ UNCHANGED <<variant, otherVars, notWorkVars, now, groups, group_data, pf, cache_ttl>>

NextWork ==
    \/ InitUser
    \/ AddWorkRecord

SpecWork == InitWork /\ [][NextWork]_vars

\* the dates of the month of which (c, u) has a work_start and a work_end
CompleteDates(c, u, month) ==
    {d \in WorkDates :
        /\ MonthStart(d) = month
        /\ <<c, u, d, "work_start">> \in DOMAIN work_records
        /\ <<c, u, d, "work_end">> \in DOMAIN work_records}

\* the work_days value stored for (c, u, month): 0 without a row
StoredWorkDays(c, u, month) ==
    LET rows == {r \in BagToSet(monthly_statistics) :
                    /\ r.chat_id = c /\ r.user_id = u
                    /\ SqlEq(r.statistic_date, Some(month))
                    /\ r.activity_name = "work_days"}
    IN  SumRows(monthly_statistics, rows, "work_days")

\* C32: work_days counts complete work days.  After any sequence of
\* add_work_record calls the work_days value stored for (chat, user, month)
\* is the number of dates of the month that have both a work_start and a
\* work_end record.
C32_Claim ==
    \A cu \in ChatUsers, d \in WorkDates :
       StoredWorkDays(cu[1], cu[2], MonthStart(d))
          = Cardinality(CompleteDates(cu[1], cu[2], MonthStart(d)))

\* C33: monthly reporting reads back what the write path stored.  For every
\* user the report lists, the reported work_days is the stored work_days
\* value of the month and the reported total_fines is what was added to the
\* monthly 'total_fines' row.
C33_Claim ==
    \A c \in Chats, d \in WorkDates :
       LET report == get_monthly_statistics(c, MonthStart(d))
       IN  \A u \in DOMAIN report :
              /\ report[u].work_days = StoredWorkDays(c, u, MonthStart(d))
              /\ report[u].total_fines
                    = TotalOf(monthly_statistics, c, u, "total_fines", "accumulated_time")

\* C34: work-record fines stay consistent across the tables.  For each
\* (chat, user, date) the amount under the daily 'work_fine' row is the sum
\* of fine_amount over the date's work_records rows.
C34_Claim ==
    \A cu \in ChatUsers, d \in WorkDates :
       LET rows == {r \in BagToSet(daily_statistics) :
                       /\ r.chat_id = cu[1] /\ r.user_id = cu[2]
                       /\ SqlEq(r.statistic_date, Some(d))
                       /\ r.activity_name = "work_fine"}
           Fine(ty) == IF <<cu[1], cu[2], d, ty>> \in DOMAIN work_records
                       THEN work_records[<<cu[1], cu[2], d, ty>>].fine_amount
                       ELSE 0
       IN  SumRows(daily_statistics, rows, "accumulated_time")
              = Fine("work_start") + Fine("work_end")

----------------------------------------------------------------------------
(* database.py: the daily ranking and the member list *)

\* LIMIT 5 of the completed part of the ranking
RankLimit == 5

\* ORDER BY accumulated_time DESC over a bag of rows: the rows, each once per
\* copy, longest time first
RECURSIVE RankOrder(_)
RankOrder(rows) ==
    IF BagToSet(rows) = {} THEN <<>>
    ELSE LET r == CHOOSE x \in BagToSet(rows) :
                     \A y \in BagToSet(rows) : x.accumulated_time >= y.accumulated_time
         IN  <<r>> \o RankOrder(rows (-) [x \in {r} |-> 1])

\* get_daily_rank_data(chat_id, activity), the entries with status
\* "completed": the first five daily_statistics rows of the chat, the business
\* date and the activity, flagged or not, with the row's time and count
get_daily_rank_data(c, activity) ==
    LET today == get_business_date(c)
        matched == {r \in BagToSet(daily_statistics) :
                      /\ r.chat_id = c /\ SqlEq(r.statistic_date, today)
                      /\ r.activity_name = activity}
        completed_rows == RankOrder([r \in matched |-> daily_statistics[r]])
        shown == SubSeq(completed_rows, 1,
                        IF Len(completed_rows) < RankLimit THEN Len(completed_rows)
                        ELSE RankLimit)
    IN  [i \in 1..Len(shown) |->
           [user_id |-> shown[i].user_id,
            total_time |-> shown[i].accumulated_time,
            total_count |-> shown[i].activity_count]]

\* the positions of user u in a ranking
RankEntries(rank, u) == {i \in 1..Len(rank) : rank[i].user_id = u}

\* the time a ranking shows for user u: 0 when u is not listed
RankTime(rank, u) ==
    IF RankEntries(rank, u) = {} THEN 0
    ELSE rank[CHOOSE i \in RankEntries(rank, u) : TRUE].total_time

\* C35: in the completed part of get_daily_rank_data each user appears at
\* most once and with the whole-day total of the activity.  A completion puts
\* its user in the ranking of its activity, once, with the time shown before
\* plus the elapsed time, and a soft reset changes no ranking, so that
\* completions before and after a soft reset are shown as one sum.
C35_Claim ==
    [][\A c \in Chats, u \in Users, a \in Activities :
          /\ Cardinality(RankEntries(get_daily_rank_data(c, a)', u)) <= 1
          /\ CompletedBy(c, u, a) =>
                /\ Cardinality(RankEntries(get_daily_rank_data(c, a)', u)) = 1
                /\ RankTime(get_daily_rank_data(c, a)', u)
                      = RankTime(get_daily_rank_data(c, a), u)
                           + Val(lastOp'.amounts).elapsed_time
          /\ (SoftResetTaken /\ lastOp'.chat_id = c) =>
                RankTime(get_daily_rank_data(c, a)', u)
                   = RankTime(get_daily_rank_data(c, a), u)
      ]_vars

\* get_group_members(chat_id): the ids of the users rows of the chat whose
\* last_updated equals the business date
get_group_members(c) ==
    LET today == get_business_date(c)
    IN  {k[2] : k \in {x \in DOMAIN users :
                          x[1] = c /\ SqlEq(users[x].last_updated, today)}}

\* C36: a user who completed an activity during the current business day is
\* listed by get_group_members.  After a completion by a user that has a
\* users row, at any time of day and under any reset time of the group, the
\* member list of the chat contains the user: the last_updated written by the
\* completion is the date the list filters on.
C36_Claim ==
    [][\A c \in Chats, u \in Users, a \in Activities :
          (CompletedBy(c, u, a) /\ <<c, u>> \in DOMAIN users') =>
             u \in get_group_members(c)'
      ]_vars

----------------------------------------------------------------------------
(* Properties: the cache under interleaved readers and writers *)

\* C37: a cache entry never outlives a newer committed write.  Under any
\* interleaving of get_activity_limits with update_activity_config and
\* delete_activity_config, once no get_activity_limits call is suspended
\* between its fetch and its _set_cached, a read of the cache finds either no
\* entry for the limits or the rows that activity_configs holds: a reader that
\* fetched before a commit does not install its older rows after the writer's
\* invalidation.
C37_Claim ==
    limits_fetch = NULL =>
       \/ CachedValue(LimitsKey) = NULL
       \/ Val(CachedValue(LimitsKey)) = activity_configs

----------------------------------------------------------------------------
(* main.py: the daily count limit, over call sequences of any length *)

InitLimit == Init /\ variant = "json"

\* a user presses an activity button
StartAttempt ==
    /\ variant = "json"
    /\ \E uid \in Users, act \in Activities :
         /\ group_data' = start_activity(group_data, uid, act)
         /\ lastOp' = [op |-> "start_activity", uid |-> uid, act |-> act]
    /\ UNCHANGED <<variant, moreVars, otherVars, now, dbVars, nOps, pf, cacheVars>>

\* a user presses the return button
BackAttempt ==
    /\ variant = "json"
    /\ \E uid \in Users :
         /\ group_data' = process_back(group_data, uid)
         /\ lastOp' = [op |-> "process_back", uid |-> uid]
    /\ UNCHANGED <<variant, moreVars, otherVars, now, dbVars, nOps, pf, cacheVars>>

\* a running activity_timer finds the forced return due
TimerForcedReturn ==
    /\ variant = "json"
    /\ \E uid \in DOMAIN group_data, act \in Activities :
         /\ ForcedReturnDue(group_data[uid], act, activity_limits[act].time_limit)
         /\ group_data' = [group_data EXCEPT ![uid] = MemberAfterForcedReturn(@, act)]
         /\ lastOp' = [op |-> "forced_return", uid |-> uid, act |-> act]
    /\ UNCHANGED <<variant, moreVars, otherVars, now, dbVars, nOps, pf, cacheVars>>

\* daily_reset_task finds the clock at the reset minute
DailyResetRun ==
    /\ variant = "json"
    /\ now.tod = DAILY_RESET_HOUR * 60 + DAILY_RESET_MINUTE
    /\ group_data' = daily_reset(group_data)
    /\ lastOp' = [op |-> "daily_reset"]
    /\ UNCHANGED <<variant, moreVars, otherVars, now, dbVars, nOps, pf, cacheVars>>

NextLimit ==
    \/ Tick
    \/ StartAttempt
    \/ BackAttempt
    \/ TimerForcedReturn
    \/ DailyResetRun

SpecLimit == InitLimit /\ [][NextLimit]_vars

\* the user's count of act for the current day has reached the limit
AtLimit(gd, uid, act) ==
    /\ uid \in DOMAIN gd
    /\ gd[uid].last_updated = now.day
    /\ gd[uid].counts[act] = activity_limits[act].max_times

\* C38: daily count limit.  After any sequence of start_activity,
\* process_back, forced returns and daily resets, no member's count of an
\* activity exceeds the activity's max_times, and a start attempt made when
\* the member's count for the current day equals max_times changes nothing in
\* group_data.
C38_CountLimit ==
    [][/\ \A uid \in DOMAIN group_data', act \in Activities :
             group_data'[uid].counts[act] <= activity_limits[act].max_times
       /\ \A uid \in Users, act \in Activities :
             (/\ lastOp'.op = "start_activity"
              /\ lastOp'.uid = uid /\ lastOp'.act = act
              /\ AtLimit(group_data, uid, act)) =>
                group_data' = group_data
      ]_vars

\* a start attempt has just been refused at the limit: the member sits at
\* max_times for the day with no activity running
C38_Witness ==
    /\ lastOp.op = "start_activity"
    /\ AtLimit(group_data, lastOp.uid, lastOp.act)
    /\ group_data[lastOp.uid].activity = NULL

----------------------------------------------------------------------------
(* main.py: the activity_timer tasks, the task registry and the user lock, *)
(* at the grain of the suspensions of the handlers and of the timers       *)

\* ids of the timers one user can be given: at most max_times starts a day
TimerSlots == 1..(2 * (MaxDay + 1))
\* the users that press buttons in this section: the locks, timers and
\* registry entries of different users do not meet
TimerUsers == {41}
TimerIds == TimerUsers \X TimerSlots

\* the variables no step of this section changes
timerFrame == <<variant, notTaskVars, dbVars, nOps, pf, cacheVars, configVars, db_init>>

InitTimer == Init /\ variant = "json"

\* task.done()
TaskDone(id) == timers[id].pc = "done"

\* the activity_timer tasks of uid that have not finished
LiveTimers(uid) == {id \in DOMAIN timers : id[1] = uid /\ ~TaskDone(id)}

\* asyncio.create_task(activity_timer(chat_id, uid, act, time_limit)): the
\* id of the new task and its state before its first step
NewTimerId(uid) == <<uid, Cardinality({id \in DOMAIN timers : id[1] = uid}) + 1>>
NewTimer(act) ==
    [act |-> act, pc |-> "lock1", must_cancel |-> FALSE, due |-> FALSE, ended |-> "no"]

\* the state of a task that has finished, and how it left its loop: by break,
\* by CancelledError, or through its own safe_cancel_task
Finished(t, how) ==
    [t EXCEPT !.pc = "done", !.must_cancel = FALSE, !.due = FALSE, !.ended = how]

\* safe_cancel_task without its last statement: the entry stays in tasks
registry_kept(uid) == tasks

\* del tasks[key]
registry_after_del(uid) == [k \in DOMAIN tasks \ {uid} |-> tasks[k]]

\* task.cancel() on a task that has not finished
Cancelled(tm, id) == [tm EXCEPT ![id].must_cancel = TRUE]

\* the handler's step after safe_cancel_task returned: _start_activity_locked
\* registers a new timer and awaits message.answer, _process_back_locked
\* awaits message.answer
AfterSafeCancel(uid, reg, tm) ==
    IF handlers[uid].op = "start_activity"
    THEN /\ tasks' = [k \in DOMAIN reg \cup {uid} |->
                         IF k = uid THEN NewTimerId(uid) ELSE reg[k]]
         /\ timers' = [id \in DOMAIN tm \cup {NewTimerId(uid)} |->
                         IF id = NewTimerId(uid)
                         THEN NewTimer(Val(group_data[uid].activity))
                         ELSE tm[id]]
         /\ handlers' = [handlers EXCEPT ![uid].pc = "reply"]
    ELSE /\ tasks' = reg
         /\ timers' = tm
         /\ handlers' = [handlers EXCEPT ![uid].pc = "reply"]

\* start_activity: takes the lock and runs _start_activity_locked as far as
\* safe_cancel_task (a start that went through) or message.answer (a refusal)
StartEnter(uid) ==
    /\ LockFree(uid) /\ handlers[uid].op = "idle"
    /\ \E act \in Activities :
         LET gd2 == start_activity(group_data, uid, act)
             started == /\ gd2[uid].activity # NULL
                        /\ (uid \in DOMAIN group_data => group_data[uid].activity = NULL)
         IN  /\ group_data' = gd2
             /\ handlers' = [handlers EXCEPT ![uid] =
                    [op |-> "start_activity",
                     pc |-> IF started THEN "cancel" ELSE "reply"]]
             /\ lastOp' = [op |-> "start_activity", uid |-> uid, act |-> act]
    /\ Acquire(uid, "start_activity")
    /\ UNCHANGED <<timerFrame, now, tasks, timers>>

\* process_back: takes the lock and runs _process_back_locked as far as
\* safe_cancel_task (an activity was running) or message.answer
BackEnter(uid) ==
    /\ LockFree(uid) /\ handlers[uid].op = "idle"
    /\ group_data' = process_back(group_data, uid)
    /\ handlers' = [handlers EXCEPT ![uid] =
           [op |-> "process_back",
            pc |-> IF uid \in DOMAIN group_data /\ group_data[uid].activity # NULL
                   THEN "cancel" ELSE "reply"]]
    /\ lastOp' = [op |-> "process_back", uid |-> uid]
    /\ Acquire(uid, "process_back")
    /\ UNCHANGED <<timerFrame, now, tasks, timers>>

\* safe_cancel_task(key) called by a handler: no entry, an entry of a
\* finished task (deleted), or an entry of a running task (cancel it and
\* await it)
HandlerCancel(uid) ==
    /\ handlers[uid].pc = "cancel"
    /\ IF uid \notin DOMAIN tasks
       THEN AfterSafeCancel(uid, tasks, timers)
       ELSE IF TaskDone(tasks[uid])
       THEN AfterSafeCancel(uid, registry_after_del(uid), timers)
       ELSE /\ timers' = Cancelled(timers, tasks[uid])
            /\ handlers' = [handlers EXCEPT ![uid].pc = "await_task"]
            /\ tasks' = tasks
    /\ lastOp' = [op |-> "safe_cancel_task", uid |-> uid]
    /\ UNCHANGED <<timerFrame, now, group_data, user_locks>>

\* await task returns in safe_cancel_task: the awaited timer has finished
HandlerResume(uid) ==
    /\ handlers[uid].pc = "await_task"
    /\ uid \in DOMAIN tasks /\ TaskDone(tasks[uid])
    /\ AfterSafeCancel(uid, registry_after_del(uid), timers)
    /\ lastOp' = [op |-> "safe_cancel_task", uid |-> uid]
    /\ UNCHANGED <<timerFrame, now, group_data, user_locks>>

\* message.answer returns and the handler leaves async with user_lock
HandlerExit(uid) ==
    /\ handlers[uid].pc = "reply"
    /\ handlers' = [handlers EXCEPT ![uid] = IdleHandler]
    /\ user_locks' = [user_locks EXCEPT ![uid] = "free"]
    /\ lastOp' = [op |-> "handler_done", uid |-> uid, handler |-> handlers[uid].op]
    /\ UNCHANGED <<timerFrame, now, group_data, tasks, timers>>

\* activity_timer, first section of the loop body (it holds no await): break
\* when the user's activity is no longer act, else compute remaining
TimerSection1(id) ==
    /\ id \in DOMAIN timers /\ timers[id].pc = "lock1" /\ ~timers[id].must_cancel
    /\ LockFree(id[1])
    /\ IF id[1] \notin DOMAIN group_data
          \/ group_data[id[1]].activity # Some(timers[id].act)
       THEN timers' = [timers EXCEPT ![id] = Finished(@, "break")]
       ELSE timers' = [timers EXCEPT ![id].pc = "notify",
                          ![id].due = ForcedReturnDue(group_data[id[1]], timers[id].act,
                                         activity_limits[timers[id].act].time_limit)]
    /\ lastOp' = [op |-> "timer_check", uid |-> id[1]]
    /\ UNCHANGED <<timerFrame, now, group_data, user_locks, tasks, handlers>>

\* activity_timer between its sections: the warnings (await bot.send_message)
TimerNotify(id) ==
    /\ id \in DOMAIN timers /\ timers[id].pc = "notify" /\ ~timers[id].must_cancel
    /\ timers' = [timers EXCEPT ![id].pc = "lock2"]
    /\ lastOp' = [op |-> "timer_notify", uid |-> id[1]]
    /\ UNCHANGED <<timerFrame, now, group_data, user_locks, tasks, handlers>>

\* activity_timer, second section: the forced return when it is due, as far
\* as the awaits that follow its writes (the lock stays held); else the
\* section ends and the task sleeps
TimerSection2(id) ==
    /\ id \in DOMAIN timers /\ timers[id].pc = "lock2" /\ ~timers[id].must_cancel
    /\ LockFree(id[1])
    /\ IF /\ id[1] \in DOMAIN group_data
          /\ group_data[id[1]].activity = Some(timers[id].act)
          /\ timers[id].due
       THEN /\ group_data' = [group_data EXCEPT ![id[1]] =
                                 MemberAfterForcedReturn(@, timers[id].act)]
            /\ Acquire(id[1], "activity_timer")
            /\ timers' = [timers EXCEPT ![id].pc = "forced"]
            /\ lastOp' = [op |-> "forced_return", uid |-> id[1], act |-> timers[id].act]
       ELSE /\ timers' = [timers EXCEPT ![id].pc = "sleep", ![id].due = FALSE]
            /\ lastOp' = [op |-> "timer_sleep", uid |-> id[1]]
            /\ UNCHANGED <<group_data, user_locks>>
    /\ UNCHANGED <<timerFrame, now, tasks, handlers>>

\* activity_timer after the forced return: safe_cancel_task(key) under the
\* lock.  The entry is this task: task.cancel() and await task on itself
TimerSafeCancel(id) ==
    /\ id \in DOMAIN timers /\ timers[id].pc = "forced" /\ ~timers[id].must_cancel
    /\ IF id[1] \in DOMAIN tasks /\ ~TaskDone(tasks[id[1]])
       THEN /\ timers' = [Cancelled(timers, tasks[id[1]]) EXCEPT ![id].pc = "await_task"]
            /\ UNCHANGED <<tasks, user_locks>>
       ELSE /\ tasks' = registry_after_del(id[1])
            /\ timers' = [timers EXCEPT ![id] = Finished(@, "safe_cancel")]
            /\ user_locks' = [user_locks EXCEPT ![id[1]] = "free"]
    /\ lastOp' = [op |-> "timer_safe_cancel", uid |-> id[1]]
    /\ UNCHANGED <<timerFrame, now, group_data, handlers>>

\* await task in the timer's safe_cancel_task returns or raises: the awaited
\* task has finished, or the task awaits itself and the loop throws into it
\* (RuntimeError, turned into CancelledError by the pending cancel), which
\* safe_cancel_task catches; then del tasks[key], break, the lock is released
TimerAwaitEnds(id) ==
    /\ id \in DOMAIN timers /\ timers[id].pc = "await_task"
    /\ id[1] \in DOMAIN tasks
    /\ tasks[id[1]] = id \/ TaskDone(tasks[id[1]]) \/ timers[id].must_cancel
    /\ tasks' = registry_after_del(id[1])
    /\ timers' = [timers EXCEPT ![id] = Finished(@, "safe_cancel")]
    /\ user_locks' = [user_locks EXCEPT ![id[1]] = "free"]
    /\ lastOp' = [op |-> "forced_return_done", uid |-> id[1]]
    /\ UNCHANGED <<timerFrame, now, group_data, handlers>>

\* a pending cancel reaches the task at its suspension (waiting for the lock,
\* bot.send_message, asyncio.sleep, the awaits of the forced return):
\* CancelledError leaves the loop, and async with releases a lock it holds
TimerCancelled(id) ==
    /\ id \in DOMAIN timers /\ timers[id].must_cancel
    /\ timers[id].pc \in {"lock1", "notify", "lock2", "sleep", "forced"}
    /\ timers' = [timers EXCEPT ![id] = Finished(@, "cancelled")]
    /\ IF timers[id].pc = "forced"
       THEN user_locks' = [user_locks EXCEPT ![id[1]] = "free"]
       ELSE UNCHANGED user_locks
    /\ lastOp' = [op |-> "timer_cancelled", uid |-> id[1]]
    /\ UNCHANGED <<timerFrame, now, group_data, tasks, handlers>>

\* asyncio.sleep(30) returns
TimerWake(id) ==
    /\ id \in DOMAIN timers /\ timers[id].pc = "sleep" /\ ~timers[id].must_cancel
    /\ timers' = [timers EXCEPT ![id].pc = "lock1"]
    /\ lastOp' = [op |-> "timer_wake", uid |-> id[1]]
    /\ UNCHANGED <<timerFrame, now, group_data, user_locks, tasks, handlers>>

\* the steps the event loop gives a handler that is inside its section
HandlerRun(uid) == HandlerCancel(uid) \/ HandlerResume(uid) \/ HandlerExit(uid)

\* the steps the event loop gives a timer task
TimerRun(id) ==
    \/ TimerSection1(id)
    \/ TimerNotify(id)
    \/ TimerSection2(id)
    \/ TimerSafeCancel(id)
    \/ TimerAwaitEnds(id)
    \/ TimerCancelled(id)
    \/ TimerWake(id)

StartPressed == \E uid \in TimerUsers : StartEnter(uid)
BackPressed == \E uid \in TimerUsers : BackEnter(uid)
HandlerStep == \E uid \in TimerUsers : HandlerRun(uid)
TimerStep == \E id \in TimerIds : TimerRun(id)

NextTimer ==
    \/ Tick
    \/ StartPressed
    \/ BackPressed
    \/ HandlerStep
    \/ TimerStep

\* the event loop runs every task that can run: a handler inside its section
\* and a timer task are not starved
SpecTimer ==
    /\ InitTimer /\ [][NextTimer]_vars
    /\ \A uid \in TimerUsers : WF_vars(HandlerRun(uid))
    /\ \A id \in TimerIds : WF_vars(TimerRun(id))

\* no timer of the user is running and the registry has no entry for the user
NoTimerLeft(uid) == LiveTimers(uid) = {} /\ uid \notin DOMAIN tasks

\* what holds in every state: a user never has two live timers, and right
\* after process_back or the timer's forced return finished, the user has no
\* live timer and no entry in tasks
TimerSafety ==
    /\ \A uid \in TimerUsers : Cardinality(LiveTimers(uid)) <= 1
    /\ (lastOp.op = "handler_done" /\ lastOp.handler = "process_back") =>
          NoTimerLeft(lastOp.uid)
    /\ lastOp.op = "forced_return_done" => NoTimerLeft(lastOp.uid)

----------------------------------------------------------------------------
(* main.py: DataManager, the debounced save of group_data *)

\* the latest value of time.time() the clock is moved to on its own; a sleep
\* that returns moves it further
MaxClock == 7

InitSave == Init /\ variant = "json"

\* json.dumps(group_data, ensure_ascii=False, indent=2)
json_dumps(gd) == [json |-> gd]

\* the content of a file just opened with mode "w"
EmptyFile == [text |-> ""]

\* _save_task is a task that has not finished
SaveTaskLive == save_task.pc \notin {"none", "done"}

\* DataManager.schedule_save(): _save_task and _last_save_time after the call
schedule_save ==
    IF save_clock - last_save_time < SAVE_DELAY
    THEN [task |-> save_task, last |-> last_save_time]
    ELSE IF SaveTaskLive
    THEN [task |-> save_task, last |-> last_save_time]
    ELSE [task |-> [pc |-> "sleep", snapshot |-> NULL], last |-> save_clock]

\* the variables no step of this section changes
saveFrame == <<variant, notSaveVars, otherVars, now, dbVars, nOps, pf, cacheVars>>

\* a handler changes group_data under UserContext, whose __aexit__ calls
\* schedule_save_data()
Mutation ==
    /\ \E uid \in Users :
          \/ \E act \in Activities :
                /\ group_data' = start_activity(group_data, uid, act)
                /\ lastOp' = [op |-> "start_activity", uid |-> uid, act |-> act]
          \/ /\ group_data' = process_back(group_data, uid)
             /\ lastOp' = [op |-> "process_back", uid |-> uid]
    /\ group_data' # group_data
    /\ save_task' = schedule_save.task
    /\ last_save_time' = schedule_save.last
    /\ UNCHANGED <<saveFrame, data_file, save_clock>>

\* time passes
SaveTick ==
    /\ save_clock < MaxClock
    /\ save_clock' = save_clock + 1
    /\ lastOp' = [op |-> "tick"]
    /\ UNCHANGED <<saveFrame, group_data, save_task, last_save_time, data_file>>

\* _save_data: asyncio.sleep(SAVE_DELAY) returns, SAVE_DELAY or more after
\* the task was created, and the task awaits aiofiles.open
SaveWake ==
    /\ save_task.pc = "sleep"
    /\ save_clock' = Max(save_clock, last_save_time + SAVE_DELAY)
    /\ save_task' = [save_task EXCEPT !.pc = "opening"]
    /\ lastOp' = [op |-> "save_wake"]
    /\ UNCHANGED <<saveFrame, group_data, last_save_time, data_file>>

\* _save_data: the file is open (and truncated); group_data is serialized
\* and the task awaits f.write
SaveOpened ==
    /\ save_task.pc = "opening"
    /\ data_file' = Some(EmptyFile)
    /\ save_task' = [pc |-> "writing", snapshot |-> Some(json_dumps(group_data))]
    /\ lastOp' = [op |-> "save_serialized"]
    /\ UNCHANGED <<saveFrame, group_data, last_save_time, save_clock>>

\* _save_data: the write of the data file is done; the task goes on to write
\* the activity file
SaveWritten ==
    /\ save_task.pc = "writing"
    /\ data_file' = save_task.snapshot
    /\ save_task' = [save_task EXCEPT !.pc = "activity_file"]
    /\ lastOp' = [op |-> "save_written"]
    /\ UNCHANGED <<saveFrame, group_data, last_save_time, save_clock>>

\* _save_data returns
SaveDone ==
    /\ save_task.pc = "activity_file"
    /\ save_task' = [pc |-> "done", snapshot |-> NULL]
    /\ lastOp' = [op |-> "save_done"]
    /\ UNCHANGED <<saveFrame, group_data, last_save_time, data_file, save_clock>>

\* the steps the event loop gives the save task
SaveRun == SaveWake \/ SaveOpened \/ SaveWritten \/ SaveDone

NextSave ==
    \/ Mutation
    \/ SaveTick
    \/ SaveWake
    \/ SaveOpened
    \/ SaveWritten
    \/ SaveDone

\* the process keeps running: the save task is not starved
SpecSave == InitSave /\ [][NextSave]_vars /\ WF_vars(SaveRun)

\* C40: debounced saving loses no update.  After any sequence of mutations
\* of group_data, each followed by schedule_save, once no further mutation
\* occurs the data file eventually holds the serialization of the final
\* group_data and keeps holding it, also when a mutation was made while a
\* save task had serialized the data and had not yet finished.
C40_Claim ==
    <>[](group_data # <<>> => data_file = Some(json_dumps(group_data)))

====
